---- MODULE Spec2Model ----
(***************************************************************************)
(* A model of the crea REST resource layer.                                *)
(*                                                                         *)
(* Spec       : one Application serving requests through one Resource, as  *)
(*              written in src/src/resource.ts, src/src/app.ts, the        *)
(*              Responder and Auth.authorised.                             *)
(* HookSpec   : the hook registry and the milestone pipeline with          *)
(*              CONTINUE / STOP / SKIP; registrations chained from a fresh *)
(*              resource.                                                  *)
(* BranchSpec : the same registry and pipeline, with registrations made on *)
(*              any resource derived so far.                               *)
(***************************************************************************)
EXTENDS Integers, Sequences, FiniteSets, TLC

(***************************************************************************)
(* Bounds                                                                  *)
(***************************************************************************)
MaxId == 2
MaxRequests == 2

Ids == 1..MaxId
NoId == 0

(* Values of the one attribute of a stored record, and request payloads.   *)
(* "bad" is a payload the data-model layer rejects with a ValidationError. *)
Vals == {"a", "b"}
Payloads == {"b", "bad"}
NoVal == "none"

(***************************************************************************)
(* ResourceAction and the steps of an action                               *)
(***************************************************************************)
ResourceAction == {"READ", "LIST", "CREATE", "UPDATE", "DELETE"}

Milestones == <<"START", "AUTH", "FETCH", "WRITE", "SEND", "FINISH">>

St(ms, kind) == [ms |-> ms, kind |-> kind]

tripleHandleFirst(ms) == <<St(ms, "handle"), St(ms, "before"), St(ms, "after")>>

(* before<A><M>, handle<A><M>, after<A><M> as they are listed in a chain.  *)
Triple(ms) == <<St(ms, "before"), St(ms, "handle"), St(ms, "after")>>

handleListFetchTwice ==
  Triple("START") \o Triple("FETCH") \o Triple("FETCH") \o Triple("SEND") \o Triple("FINISH")

handleList == Triple("START") \o Triple("FETCH") \o Triple("SEND") \o Triple("FINISH")

handleReadWriting ==
  Triple("START") \o Triple("FETCH") \o Triple("WRITE") \o Triple("SEND") \o Triple("FINISH")

handleRead == Triple("START") \o Triple("FETCH") \o Triple("SEND") \o Triple("FINISH")

handleCreate == Triple("START") \o Triple("WRITE") \o Triple("SEND") \o Triple("FINISH")

handleUpdate ==
  Triple("START") \o Triple("FETCH") \o Triple("WRITE") \o Triple("SEND") \o Triple("FINISH")

handleDelete ==
  Triple("START") \o Triple("AUTH") \o Triple("FETCH") \o Triple("WRITE")
    \o Triple("SEND") \o Triple("FINISH")

ChainOf(a) ==
  CASE a = "LIST" -> handleList
    [] a = "READ" -> handleRead
    [] a = "CREATE" -> handleCreate
    [] a = "UPDATE" -> handleUpdate
    [] a = "DELETE" -> handleDelete

(***************************************************************************)
(* Errors and their coercion                                               *)
(***************************************************************************)
(* The data of an error: undefined, or the errors of a validation failure, *)
(* an object with one key per invalid field holding that field's messages, *)
(* here the sequence of its entries in key order.                          *)
Undefined == [tag |-> "undefined"]
FieldErrors(entries) == [tag |-> "errors", entries |-> entries]
Entry(path, messages) == [path |-> path, messages |-> messages]

NoErr == [kind |-> "none", status |-> 0, message |-> "", data |-> Undefined, stack |-> <<>>]

(* this.stack = new Error().stack: the frames of a stack trace, here the   *)
(* name of the constructor that captured it.                               *)
ApplicationError(status, message, data) ==
  [kind |-> "ApplicationError", status |-> status, message |-> message, data |-> data,
   stack |-> <<"ApplicationError">>]

(* An error that is not an ApplicationError: it has no status.             *)
RawError(kind, message, data) ==
  [kind |-> kind, status |-> 0, message |-> message, data |-> data, stack |-> <<kind>>]

ValidationErrorOf(errors) == RawError("ValidationError", "Validation failed", errors)
ValidationError == ValidationErrorOf(FieldErrors(<<Entry("name", <<"Is required">>)>>))
AuthorisationError == RawError("AuthorisationError", "", Undefined)
PlainError == RawError("Error", "boom", Undefined)

(* throw new ApplicationError(404, 'Not Found')                            *)
NotFound == ApplicationError(404, "Not Found", Undefined)

VARIABLES
  handlers,   \* ApplicationError.handlers: error constructor -> coercion handler
  registered  \* the calls of ApplicationError.register since the module has loaded

errVars == <<handlers, registered>>

(* The error constructors that are keys of ApplicationError.handlers or    *)
(* are looked up in it.                                                    *)
Constructors ==
  {"ApplicationError", "ValidationError", "TokenInvalidError", "TokenExpiryError",
   "UserNotFoundError", "AuthorisationError", "Error"}

(* Coercion handlers: the two kinds the module registers, and two an       *)
(* application may register.                                               *)
NoHandler == "undefined"
Handlers == {"badRequest", "unauthorised", "forbidden", "teapot"}

callPaymentRequired(f, err) ==
  CASE f = "badRequest" -> ApplicationError(400, err.message, err.data)
    [] f = "unauthorised" -> ApplicationError(402, err.message, Undefined)
    [] f = "forbidden" -> ApplicationError(403, "Forbidden", Undefined)
    [] f = "teapot" -> ApplicationError(418, err.message, err.data)

(* handler(err) for a registered handler f.                                *)
call(f, err) ==
  CASE f = "badRequest" -> ApplicationError(400, err.message, err.data)
    [] f = "unauthorised" -> ApplicationError(401, err.message, Undefined)
    [] f = "forbidden" -> ApplicationError(403, "Forbidden", Undefined)
    [] f = "teapot" -> ApplicationError(418, err.message, err.data)

setAll(map, key, value) == [k \in DOMAIN map |-> value]

(* Map.prototype.set                                                       *)
set(map, key, value) == [map EXCEPT ![key] = value]

(* ApplicationError.handlers after the module has loaded.                  *)
DefaultHandlers ==
  [k \in Constructors |->
     CASE k = "ValidationError" -> "badRequest"
       [] k \in {"TokenInvalidError", "TokenExpiryError", "UserNotFoundError"} -> "unauthorised"
       [] OTHER -> NoHandler]

Loaded ==
  /\ handlers = DefaultHandlers
  /\ registered = <<>>

(* ApplicationError.handlers.get(err.constructor)                          *)
handler(err) == handlers[err.kind]

(* result.stack = `${result.stack}\ncaused by ${err.stack}`                *)
mergeStacks(result, err) ==
  [result EXCEPT !.stack = @ \o <<"caused by">> \o err.stack]

coerceIdentity(err) == err

coerceWrap(err) == mergeStacks(ApplicationError(500, err.message, Undefined), err)

coerceHideMessage(err) ==
  IF err.kind = "ApplicationError" THEN err
  ELSE IF handler(err) # NoHandler THEN call(handler(err), err)
  ELSE mergeStacks(ApplicationError(500, "Internal Server Error", Undefined), err)

coerce(err) ==
  IF err.kind = "ApplicationError" THEN err
  ELSE IF handler(err) # NoHandler THEN call(handler(err), err)
  ELSE mergeStacks(ApplicationError(500, err.message, Undefined), err)

(***************************************************************************)
(* The response slot of the context and the Responder                      *)
(***************************************************************************)
Unset == 0
NoBody == [tag |-> "none"]
Response(status, body) == [status |-> status, body |-> body]

ResponderErrorKeep(cur, err) ==
  IF cur.body = NoBody
    THEN Response(err.status, [tag |-> "error", message |-> err.message, data |-> err.data])
    ELSE cur

ResponderError(cur, err) ==
  Response(err.status, [tag |-> "error", message |-> err.message, data |-> err.data])

responderSingleCreated(instance) ==
  Response(201, [tag |-> "single", instance |-> instance])

ResponderSingle(instance) == Response(200, [tag |-> "single", instance |-> instance])

ResponderMultiple(instances) == Response(200, [tag |-> "multiple", instances |-> instances])

(***************************************************************************)
(* Persistence: the records of the model, keyed by primary key             *)
(***************************************************************************)
Null == [tag |-> "null"]
One(id, val) == [tag |-> "one", id |-> id, val |-> val]
Many(recs) == [tag |-> "many", recs |-> recs]

Query(filtered, id) == [filtered |-> filtered, id |-> id]

Matches(db, q) ==
  {i \in Ids : db[i] # NoVal /\ (q.filtered => i = q.id)}

find(db, q) == Many({One(i, db[i]) : i \in Matches(db, q)})

findOneUnfiltered(db, q) ==
  LET stored == {k \in Ids : db[k] # NoVal}
  IN IF stored = {} THEN Null
     ELSE LET i == CHOOSE j \in stored : \A k \in stored : j <= k
          IN One(i, db[i])

findOne(db, q) ==
  IF Matches(db, q) = {} THEN Null
  ELSE LET i == CHOOSE j \in Matches(db, q) : \A k \in Matches(db, q) : j <= k
       IN One(i, db[i])

FreeIds(db) == {i \in Ids : db[i] = NoVal}

falsyNever(instance) == FALSE

falsyAlways(instance) == TRUE

falsyEmpty(instance) == instance = Null \/ instance = Many({})

(* !instance in JavaScript: null is falsy, objects and arrays are truthy.  *)
Falsy(instance) == instance = Null

(***************************************************************************)
(* State of the application, the resource and the request in flight        *)
(***************************************************************************)
VARIABLES
  auth,      \* resourceOptions.auth: "none", or an Auth "noacl" / with an "acl"
  db,        \* the stored records: primary key -> value, NoVal when absent
  nreq,      \* number of requests dispatched so far
  phase,     \* "idle", "run", "returned", "raised", "responded"
  action,    \* the ResourceAction of the request in flight
  params,    \* ctx.params.id
  reqBody,   \* ctx.request.body
  allowed,   \* what acl.isAllowed answers for this request's user
  index,     \* process: the last called middleware number
  resource,  \* ctx.resource
  resp,      \* ctx.status and ctx.body
  err,       \* the failure a step has thrown
  halted,    \* a middleware returned without calling next
  trace,     \* the steps that have been started, in order
  calls,     \* the persistence calls issued, in order
  sent       \* responses handed to the HTTP layer for this request

codeVars ==
  <<auth, db, nreq, phase, action, params, reqBody, allowed, index, resource,
    resp, err, halted, trace, calls, sent>>

(***************************************************************************)
(* State of the hook registry and of a run of the milestone pipeline       *)
(***************************************************************************)
VARIABLES
  registries,  \* registries[k]: the hook registry of the k-th resource value
  parents,     \* parents[k]: the resource the k-th was derived from, 0 for a fresh one
  targets,     \* targets[k]: the chain the k-th resource's own hook went into
  hstate,      \* "idle", "run", "done", "stopped", "failed"
  hres,        \* the resource that runs the action
  haction,     \* the action that is run
  hpos,        \* position in the action's plan of the next step
  hskip,       \* the previous step of the same chain returned SKIP
  htrace       \* the steps executed, with the Status each returned

hookVars == <<registries, parents, targets, hstate, hres, haction, hpos, hskip, htrace>>

NoResource ==
  [actionName |-> "", multiple |-> FALSE, query |-> Query(FALSE, NoId),
   data |-> NoVal, instance |-> Null]

ActionName(a) ==
  CASE a = "LIST" -> "list" [] a = "READ" -> "read" [] a = "CREATE" -> "create"
    [] a = "UPDATE" -> "update" [] a = "DELETE" -> "delete"

(* handle<A>Start: ctx.resource = { name, actionName [, multiple: true] }   *)
handleActionStart(a) == [actionName |-> ActionName(a), multiple |-> a = "LIST"]

handleStartByRoute(res, body, id) ==
  [actionName |-> res.actionName,
   multiple |-> res.multiple,
   query |-> IF id # NoId THEN Query(TRUE, id) ELSE Query(FALSE, NoId),
   data |-> body,
   instance |-> Null]

(* handleStart: defaults, overlaid by ctx.resource; the query is filtered  *)
(* by the primary key unless the resource acts on multiple instances.      *)
handleStart(res, body, id) ==
  [actionName |-> res.actionName,
   multiple |-> res.multiple,
   query |-> IF ~res.multiple THEN Query(TRUE, id) ELSE Query(FALSE, NoId),
   data |-> body,
   instance |-> Null]

(***************************************************************************)
(* The contexts of the requests in flight                                  *)
(***************************************************************************)
VARIABLES
  parked  \* the context of the in-flight request that is not running

concVars == <<parked>>

(* What belongs to one request: its koa context (ctx.params, request body, *)
(* ctx.resource, status and body), the user's permission, the outcome of   *)
(* its chain and its answer, and `index` of its call of process.           *)
Context ==
  [phase |-> phase, action |-> action, params |-> params, reqBody |-> reqBody,
   allowed |-> allowed, index |-> index, resource |-> resource, resp |-> resp,
   err |-> err, halted |-> halted, trace |-> trace, calls |-> calls, sent |-> sent]

IdleContext ==
  [phase |-> "idle", action |-> "LIST", params |-> NoId, reqBody |-> NoVal,
   allowed |-> TRUE, index |-> -1, resource |-> NoResource,
   resp |-> Response(Unset, NoBody), err |-> NoErr, halted |-> FALSE,
   trace |-> <<>>, calls |-> <<>>, sent |-> 0]

Alone == parked = IdleContext

(***************************************************************************)
(* process: a chain of middlewares, one of which may process a sub-chain   *)
(***************************************************************************)
VARIABLES
  chains,       \* the middlewares of the chain (level 0) and of the sub-chain (level 1)
  indexes,      \* `index` of the call of process of each level
  frames,       \* the middlewares that have been invoked and have not returned
  invoked,      \* how often each middleware has been invoked
  nextCalls,    \* how often each middleware has called its next
  parentNexts   \* how often the parentNext of the sub-chain has been called

procVars == <<chains, indexes, frames, invoked, nextCalls, parentNexts>>

MaxChain == 2

(* What a middleware does: `return next()`, return without next, throw,    *)
(* `await next(); return next()`, or `return this.process(ctx, sub, next)`.*)
Behaviours == {"next", "stop", "throw", "twice"}
SubChains == UNION {[1..n -> Behaviours] : n \in 0..MaxChain}
ParentChains ==
  {c \in UNION {[1..n -> Behaviours \cup {"sub"}] : n \in 1..MaxChain} :
     Cardinality({k \in DOMAIN c : c[k] = "sub"}) <= 1}

Frame(level, pos) == [level |-> level, pos |-> pos]
Counts(c) == [k \in 1..Len(c) |-> 0]

(* The middleware mws[pos] of a level; positions count from 0 as in the    *)
(* code.                                                                   *)
MwAt(level, pos) == chains[level + 1][pos + 1]
Length(level) == Len(chains[level + 1])

NoProcess ==
  /\ chains = <<<<>>, <<>>>>
  /\ indexes = <<-1, -1>>
  /\ frames = <<>>
  /\ invoked = <<<<>>, <<>>>>
  /\ nextCalls = <<<<>>, <<>>>>
  /\ parentNexts = 0

MultipleTimes == RawError("Error", "next() called multiple times in resource middleware", Undefined)

(***************************************************************************)
(* The roles of a user in the ACL, synchronised by init, read by           *)
(* authorised                                                              *)
(***************************************************************************)
VARIABLES
  granted,    \* getRoles(user): the roles the application gives the user
  userRoles,  \* acl.userRoles(userId): the roles the ACL holds for the user
  inits       \* per request of the user: where it is, what it has read

aclVars == <<granted, userRoles, inits>>

MaxInFlight == 2

Roles == {"admin", "member"}

(* The roles the ACL allows the permission on the resource.                *)
Permitted == {"admin"}

InFlight == 1..MaxInFlight

Arrived == [pc |-> "arrived", current |-> {}, roles |-> {}, seen |-> {}, isAllowed |-> FALSE]

NoAcl ==
  /\ granted = {}
  /\ userRoles = {}
  /\ inits = <<>>

(***************************************************************************)
(* Construction of the resource: the routes of the enabled actions         *)
(***************************************************************************)
VARIABLES
  options,   \* the actions of the options given to the constructor, if any
  built,     \* the constructor has run
  stack,     \* the routes installed on the router, in order
  matched    \* the handlers the router found for the last routed request

ctorVars == <<options, built, stack, matched>>

MaxActions == 3

DefaultActions == <<"LIST", "READ", "CREATE", "UPDATE", "DELETE">>

(* Lists of at most MaxActions actions, duplicates included.               *)
ActionLists == UNION {[1..n -> ResourceAction] : n \in 0..MaxActions}

Options == {[given |-> FALSE, actions |-> <<>>]} \cup
           {[given |-> TRUE, actions |-> l] : l \in ActionLists}

(* this.resourceOptions = { ..., actions: [all five], ...options }          *)
resourceOptions(opts) == IF opts.given THEN opts.actions ELSE DefaultActions

uniqKeepAll(array) == array

(* _.uniq: the first occurrence of every element, in order.                *)
uniq(array) ==
  LET first == {j \in 1..Len(array) : \A k \in 1..(j - 1) : array[k] # array[j]}
      F[j \in 0..Len(array)] ==
        IF j = 0 THEN <<>>
        ELSE IF j \in first THEN Append(F[j - 1], array[j]) ELSE F[j - 1]
  IN F[Len(array)]

Methods == {"GET", "POST", "PUT", "DELETE"}
Paths == {"/", "/:id"}

Route(method, path, h) == [method |-> method, path |-> path, handler |-> h]

(* The switch of the constructor's loop: this.get / post / put / delete.   *)
routeOf(a) ==
  CASE a = "LIST" -> Route("GET", "/", "LIST")
    [] a = "READ" -> Route("GET", "/:id", "READ")
    [] a = "CREATE" -> Route("POST", "/", "CREATE")
    [] a = "UPDATE" -> Route("PUT", "/:id", "UPDATE")
    [] a = "DELETE" -> Route("DELETE", "/:id", "DELETE")

(* for (let action of _.uniq(this.resourceOptions.actions)) switch ...     *)
routes(opts) ==
  LET enabled == uniq(resourceOptions(opts))
  IN [j \in 1..Len(enabled) |-> routeOf(enabled[j])]

Routed(a) == built /\ \E j \in 1..Len(stack) : stack[j].handler = a

Unbuilt == built = FALSE /\ stack = <<>> /\ matched = <<>>

(* new Resource(db, model): no options, every action enabled.              *)
Constructed ==
  /\ options = [given |-> FALSE, actions |-> <<>>]
  /\ built = TRUE
  /\ stack = routes(options)
  /\ matched = <<>>

(***************************************************************************)
(* Bearer tokens and the user of a request                                 *)
(***************************************************************************)
VARIABLES
  clock,     \* moment().unix()
  header,    \* the token header of the request in flight
  user,      \* ctx.user
  lookups,   \* the identifiers getUser was called with for this request
  optional,  \* AuthInitOptions.optional
  strict,    \* the decoder of the token library rejects a token past its exp
  nexts      \* the calls of next the init middleware made for this request

authVars == <<clock, header, user, lookups, optional, strict, nexts>>

MaxTime == 2

Subs == {1, 2}
Users == {1}
NoUser == 0

(* A token header: none, or a token that was or was not produced with the  *)
(* secret, for a subject and with an expiry time.                          *)
NoToken == [tag |-> "none"]
Token(signed, sub, exp) == [tag |-> "token", signed |-> signed, sub |-> sub, exp |-> exp]
Tokens == {Token(g, sub, exp) : g \in BOOLEAN, sub \in Subs, exp \in 0..MaxTime}

TokenInvalidError(message) == RawError("TokenInvalidError", message, Undefined)
TokenExpiryError(message) == RawError("TokenExpiryError", message, Undefined)
UserNotFoundError(message) == RawError("UserNotFoundError", message, Undefined)

(* decode(token, this.secret) of the token library: it throws when the     *)
(* token was not produced with the secret, and, if the library checks the  *)
(* exp claim itself, when the time is past exp.                            *)
decode(tok, now, checksExp) ==
  IF ~tok.signed \/ (checksExp /\ tok.exp # 0 /\ now > tok.exp) THEN "throws" ELSE "payload"

(* getUser of the application: the user of the identifier, or a rejection  *)
(* with UserNotFoundError.                                                 *)
getUser(sub) ==
  IF sub \in Users THEN [err |-> NoErr, user |-> sub]
  ELSE [err |-> UserNotFoundError("User not found"), user |-> NoUser]

Consumed(e, u, ids) == [err |-> e, user |-> u, lookups |-> ids]

consumeToken(tok, now, checksExp) ==
  IF decode(tok, now, checksExp) = "throws"
    THEN Consumed(TokenInvalidError("Token was invalid"), NoUser, <<>>)
  ELSE IF now >= tok.exp
    THEN Consumed(TokenExpiryError("Token has expired"), NoUser, <<>>)
  ELSE Consumed(getUser(tok.sub).err, getUser(tok.sub).user, <<tok.sub>>)

AuthIdle ==
  /\ clock = 0
  /\ header = NoToken
  /\ user = NoUser
  /\ lookups = <<>>
  /\ optional = FALSE
  /\ strict = FALSE
  /\ nexts = 0

(***************************************************************************)
(* Hook registry (insertion at a priority) and milestone pipeline          *)
(***************************************************************************)
MaxHooks == 3
MaxDerived == 2
MaxPriority == 1
DefaultPriority == 1
BasePriority == 0
NoPriority == -1

ChainKinds == <<"before", "on", "after">>
Status == {"CONTINUE", "STOP", "SKIP"}

(* PipelineDefinition: the milestones of each action, in order.            *)
PipelineDefinition(a) ==
  CASE a = "LIST" -> <<"START", "FETCH", "SEND", "FINISH">>
    [] a = "READ" -> <<"START", "FETCH", "SEND", "FINISH">>
    [] a = "CREATE" -> <<"START", "WRITE", "SEND", "FINISH">>
    [] a = "UPDATE" -> <<"START", "FETCH", "WRITE", "SEND", "FINISH">>
    [] a = "DELETE" -> <<"START", "FETCH", "WRITE", "SEND", "FINISH">>

Range(f) == {f[j] : j \in DOMAIN f}

(* The chains a hook is registered on in this model.                       *)
HookSites ==
  {<<"CREATE", "START", "before">>, <<"CREATE", "WRITE", "on">>, <<"CREATE", "SEND", "after">>}

(* A registry maps (action, milestone, chain kind) to a chain; a chain that *)
(* is absent is empty.                                                     *)
EmptyRegistry == <<>>

chainOf(registry, site) == IF site \in DOMAIN registry THEN registry[site] ELSE <<>>

Hook_(id, priority) == [id |-> id, priority |-> priority]

InsertAt(chain, k, h) == SubSeq(chain, 1, k) \o <<h>> \o SubSeq(chain, k + 1, Len(chain))

insertAppend(chain, h) == Append(chain, h)

insertBeforeEqual(chain, h) ==
  InsertAt(chain, Cardinality({j \in 1..Len(chain) : chain[j].priority < h.priority}), h)

(* Ordered insert: after every hook whose priority is not greater.         *)
insert(chain, h) ==
  InsertAt(chain, Cardinality({j \in 1..Len(chain) : chain[j].priority <= h.priority}), h)

withHook(registry, site, h) ==
  [s \in DOMAIN registry \cup {site} |->
     IF s = site THEN insert(chainOf(registry, site), h) ELSE registry[s]]

deriveInPlace(regs, r, registry) == Append([regs EXCEPT ![r] = registry], registry)

(* The value a registration returns is a new resource; the one it was      *)
(* called on keeps its registry.                                           *)
derive(regs, r, registry) == Append(regs, registry)

Default == 0

PlanStep(ms, kind, step, priority) ==
  [ms |-> ms, kind |-> kind, step |-> step, priority |-> priority]

chainPlanDefaultFirst(registry, a, ms, kind) ==
  LET c == chainOf(registry, <<a, ms, kind>>)
      hooks == [j \in 1..Len(c) |-> PlanStep(ms, kind, c[j].id, c[j].priority)]
  IN IF kind = "on" THEN <<PlanStep(ms, kind, Default, BasePriority)>> \o hooks ELSE hooks

(* The chain of one kind at a milestone; on the `on` chain the default     *)
(* step takes the last position.                                           *)
ChainPlan(registry, a, ms, kind) ==
  LET c == chainOf(registry, <<a, ms, kind>>)
      hooks == [j \in 1..Len(c) |-> PlanStep(ms, kind, c[j].id, c[j].priority)]
  IN IF kind = "on" THEN Append(hooks, PlanStep(ms, kind, Default, BasePriority)) ELSE hooks

MilestonePlan(registry, a, ms) ==
  ChainPlan(registry, a, ms, "before") \o ChainPlan(registry, a, ms, "on")
    \o ChainPlan(registry, a, ms, "after")

RECURSIVE PlanFrom(_, _, _)
PlanFrom(registry, a, m) ==
  IF m > Len(PipelineDefinition(a)) THEN <<>>
  ELSE MilestonePlan(registry, a, PipelineDefinition(a)[m]) \o PlanFrom(registry, a, m + 1)

Plan(registry, a) == PlanFrom(registry, a, 1)

SameChain(s, t) == s.ms = t.ms /\ s.kind = t.kind

hplan == Plan(registries[hres], haction)

LastOfChain(plan, p) == p = Len(plan) \/ ~SameChain(plan[p], plan[p + 1])

skipAcross(st, plan, p) == st = "SKIP"

(* SKIP suppresses the next step of the same chain only.                   *)
skipNext(st, plan, p) == st = "SKIP" /\ ~LastOfChain(plan, p)

HookIdle ==
  /\ registries = <<EmptyRegistry>>
  /\ parents = <<0>>
  /\ targets = <<<<"", "", "">>>>
  /\ hstate = "idle"
  /\ hres = 1
  /\ haction = "LIST"
  /\ hpos = 1
  /\ hskip = FALSE
  /\ htrace = <<>>

runVars == <<hstate, hres, haction, hpos, hskip, htrace>>

(* before / on / after (action, milestone, step, priority?) on resource r, *)
(* while fewer than `limit` resources have been derived.                   *)
WithHook(r, site, priority, limit) ==
  /\ hstate = "idle"
  /\ Len(registries) <= limit
  /\ r \in 1..Len(registries)
  /\ LET p == IF priority = NoPriority THEN DefaultPriority ELSE priority
          h == Hook_(Len(registries) + 1, p)
     IN registries' = derive(registries, r, withHook(registries[r], site, h))
  /\ parents' = Append(parents, r)
  /\ targets' = Append(targets, site)
  /\ UNCHANGED runVars
  /\ UNCHANGED <<codeVars, ctorVars, authVars, errVars, concVars, procVars, aclVars>>

regVars == <<registries, parents, targets>>

RunAction(r, a) ==
  /\ hstate = "idle"
  /\ r \in 1..Len(registries)
  /\ hstate' = "run"
  /\ hres' = r
  /\ haction' = a
  /\ hpos' = 1
  /\ hskip' = FALSE
  /\ htrace' = <<>>
  /\ UNCHANGED regVars
  /\ UNCHANGED <<codeVars, ctorVars, authVars, errVars, concVars, procVars, aclVars>>

Advance ==
  /\ hpos' = hpos + 1
  /\ UNCHANGED <<hres, haction>>
  /\ UNCHANGED regVars
  /\ UNCHANGED <<codeVars, ctorVars, authVars, errVars, concVars, procVars, aclVars>>

Executed(st) == [at |-> hpos, entry |-> hplan[hpos], status |-> st]

(* A step runs and returns a Status.                                       *)
RunStep(st) ==
  /\ hstate = "run" /\ ~hskip
  /\ hplan[hpos].step = Default => st = "CONTINUE"
  /\ htrace' = Append(htrace, Executed(st))
  /\ hskip' = skipNext(st, hplan, hpos)
  /\ hstate' = IF st = "STOP" THEN "stopped"
               ELSE IF hpos = Len(hplan) THEN "done" ELSE "run"
  /\ Advance

(* The step after a SKIP is bypassed as if it had returned CONTINUE.       *)
BypassStep ==
  /\ hstate = "run" /\ hskip
  /\ hskip' = FALSE
  /\ hstate' = IF hpos = Len(hplan) THEN "done" ELSE "run"
  /\ UNCHANGED htrace
  /\ Advance

(* A step throws: the run ends at the action boundary with STOP.           *)
RunThrow ==
  /\ hstate = "run" /\ ~hskip
  /\ hplan[hpos].step # Default
  /\ htrace' = Append(htrace, Executed("THROW"))
  /\ hstate' = "failed"
  /\ hskip' = FALSE
  /\ Advance

(* The run is over and its context is discarded.                           *)
EndRun ==
  /\ hstate \in {"done", "stopped", "failed"}
  /\ hstate' = "idle"
  /\ hres' = 1
  /\ haction' = "LIST"
  /\ hpos' = 1
  /\ hskip' = FALSE
  /\ htrace' = <<>>
  /\ UNCHANGED regVars
  /\ UNCHANGED <<codeVars, ctorVars, authVars, errVars, concVars, procVars, aclVars>>

(* No request has been dispatched and nothing is stored.                   *)
CodeIdle ==
  /\ auth = "none"
  /\ db = [k \in Ids |-> NoVal]
  /\ nreq = 0
  /\ phase = "idle"
  /\ action = "LIST"
  /\ params = NoId
  /\ reqBody = NoVal
  /\ allowed = TRUE
  /\ index = -1
  /\ resource = NoResource
  /\ resp = Response(Unset, NoBody)
  /\ err = NoErr
  /\ halted = FALSE
  /\ trace = <<>>
  /\ calls = <<>>
  /\ sent = 0

HookInit == CodeIdle /\ HookIdle /\ Constructed /\ AuthIdle /\ Loaded /\ Alone /\ NoProcess /\ NoAcl

Priorities == (0..MaxPriority) \cup {NoPriority}

(* Registrations chained on one another from a fresh resource; the result  *)
(* of the last one serves the requests.                                    *)
HookNext ==
  \/ \E site \in HookSites, p \in Priorities : WithHook(Len(registries), site, p, MaxHooks)
  \/ \E a \in ResourceAction : RunAction(Len(registries), a)
  \/ \E st \in Status : RunStep(st)
  \/ BypassStep
  \/ RunThrow
  \/ EndRun

(* Registrations on any resource derived so far; every one of them serves  *)
(* requests.                                                               *)
BranchNext ==
  \/ \E r \in 1..(MaxDerived + 1), site \in HookSites, p \in Priorities :
        WithHook(r, site, p, MaxDerived)
  \/ \E r \in 1..(MaxDerived + 1), a \in ResourceAction : RunAction(r, a)
  \/ \E st \in Status : RunStep(st)
  \/ BypassStep
  \/ RunThrow
  \/ EndRun

(***************************************************************************)
(* The constructor and the routing of a request to the installed handlers  *)
(***************************************************************************)
constructor ==
  /\ ~built
  /\ built' = TRUE
  /\ stack' = routes(options)
  /\ UNCHANGED <<options, matched>>
  /\ UNCHANGED <<codeVars, hookVars, authVars, errVars, concVars, procVars, aclVars>>

(* The router hands a request to the handlers of the routes that have its  *)
(* method and path, in the order of their installation.                    *)
Match(method, path) ==
  LET hit == {j \in 1..Len(stack) : stack[j].method = method /\ stack[j].path = path}
      F[j \in 0..Len(stack)] ==
        IF j = 0 THEN <<>>
        ELSE IF j \in hit THEN Append(F[j - 1], stack[j].handler) ELSE F[j - 1]
  IN F[Len(stack)]

Dispatch(method, path) ==
  /\ built
  /\ matched' = Match(method, path)
  /\ UNCHANGED <<options, built, stack>>
  /\ UNCHANGED <<codeVars, hookVars, authVars, errVars, concVars, procVars, aclVars>>

CtorInit == CodeIdle /\ HookIdle /\ options \in Options /\ Unbuilt /\ AuthIdle /\ Loaded /\ Alone /\ NoProcess /\ NoAcl

CtorNext ==
  \/ constructor
  \/ \E method \in Methods, path \in Paths : Dispatch(method, path)

(***************************************************************************)
(* process / dispatch                                                      *)
(***************************************************************************)
i == index + 1
mws == ChainOf(action)
mw == mws[i + 1]

Running(ms, kind) == phase = "run" /\ i < Len(mws) /\ mw = St(ms, kind)

dispatchAlways(j, n, calledNext) == IF j + 1 = n THEN "returned" ELSE "run"

(* What becomes of the chain once middleware j has returned: dispatch(j+1) *)
(* runs only if the middleware called next, and dispatch(n) is parentNext. *)
dispatch(j, n, calledNext) ==
  IF ~calledNext THEN "returned"
  ELSE IF j + 1 = n THEN "returned" ELSE "run"

Started == trace' = Append(trace, mw) /\ index' = i

CallNext ==
  /\ Started
  /\ phase' = dispatch(i, Len(mws), TRUE)
  /\ UNCHANGED <<err, halted>>

Return ==
  /\ Started
  /\ phase' = dispatch(i, Len(mws), FALSE)
  /\ halted' = TRUE
  /\ UNCHANGED err

Throw(e) ==
  /\ Started
  /\ phase' = "raised"
  /\ err' = e
  /\ UNCHANGED halted

reqVars == <<auth, nreq, action, params, reqBody, allowed, sent>>

(***************************************************************************)
(* Application middleware and routing                                      *)
(***************************************************************************)
NeedsId(a) == a \in {"READ", "UPDATE", "DELETE"}
NeedsBody(a) == a \in {"CREATE", "UPDATE"}

Request(a, id, body, al) ==
  /\ phase \in {"idle", "responded"}
  /\ nreq < MaxRequests
  /\ id = NoId <=> ~NeedsId(a)
  /\ body = NoVal <=> ~NeedsBody(a)
  /\ auth # "acl" => al
  /\ a = "CREATE" => FreeIds(db) # {}
  /\ Routed(a)
  /\ nreq' = nreq + 1
  /\ phase' = "run"
  /\ action' = a
  /\ params' = id
  /\ reqBody' = body
  /\ allowed' = al
  /\ index' = -1
  /\ resource' = NoResource
  /\ resp' = Response(Unset, NoBody)
  /\ err' = NoErr
  /\ halted' = FALSE
  /\ trace' = <<>>
  /\ calls' = <<>>
  /\ sent' = 0
  /\ UNCHANGED <<auth, db>>
  /\ UNCHANGED <<hookVars, ctorVars, authVars, errVars, concVars, procVars, aclVars>>

AppReturn ==
  /\ phase = "returned"
  /\ phase' = "responded"
  /\ sent' = sent + 1
  /\ UNCHANGED <<auth, db, nreq, action, params, reqBody, allowed, index, resource,
                 resp, err, halted, trace, calls>>
  /\ UNCHANGED <<hookVars, ctorVars, authVars, errVars, concVars, procVars, aclVars>>

appCatchSwallow ==
  /\ phase = "raised"
  /\ phase' = "swallowed"
  /\ UNCHANGED <<auth, db, nreq, action, params, reqBody, allowed, index, resource,
                 resp, err, halted, trace, calls, sent>>
  /\ UNCHANGED <<hookVars, ctorVars, authVars, errVars, concVars, procVars, aclVars>>

AppCatch ==
  /\ phase = "raised"
  /\ resp' = ResponderError(resp, coerce(err))
  /\ phase' = "responded"
  /\ sent' = sent + 1
  /\ UNCHANGED <<auth, db, nreq, action, params, reqBody, allowed, index, resource,
                 err, halted, trace, calls>>
  /\ UNCHANGED <<hookVars, ctorVars, authVars, errVars, concVars, procVars, aclVars>>

(***************************************************************************)
(* Failures of the middleware behind the Application and their coercion    *)
(***************************************************************************)
MaxMessages == 2

Fields == {"name", "age"}
FieldMessages == {"Is required", "Is invalid"}

MessageLists == UNION {[1..n -> FieldMessages] : n \in 1..MaxMessages}

(* The errors of a ValidationError: invalid field -> its messages.         *)
ErrorsObjects ==
  {FieldErrors(<<Entry(f, m)>>) : f \in Fields, m \in MessageLists}
    \cup {FieldErrors(<<Entry(f[1], m), Entry(f[2], n)>>) :
            f \in {g \in Fields \X Fields : g[1] # g[2]}, m \in MessageLists, n \in MessageLists}

RawKinds ==
  {"TokenInvalidError", "TokenExpiryError", "UserNotFoundError", "AuthorisationError", "Error"}

(* What a middleware or a step may throw.                                  *)
Thrown ==
  {ValidationErrorOf(e) : e \in ErrorsObjects}
    \cup {RawError(k, m, Undefined) : k \in RawKinds, m \in {"", "boom"}}
    \cup {ApplicationError(st, "Forbidden", d) :
            st \in {403, 409}, d \in {Undefined, FieldErrors(<<Entry("name", <<"Is required">>)>>)}}
    \cup {NotFound}

(* `await next()` of the Application middleware rejects: a middleware of   *)
(* the application (token check, custom route) has thrown.                 *)
Raise(e) ==
  /\ phase \in {"idle", "responded"}
  /\ nreq < MaxRequests
  /\ nreq' = nreq + 1
  /\ phase' = "raised"
  /\ err' = e
  /\ index' = -1
  /\ resource' = NoResource
  /\ resp' = Response(Unset, NoBody)
  /\ halted' = FALSE
  /\ trace' = <<>>
  /\ calls' = <<>>
  /\ sent' = 0
  /\ UNCHANGED <<auth, db, action, params, reqBody, allowed>>
  /\ UNCHANGED <<hookVars, ctorVars, authVars, errVars, concVars, procVars, aclVars>>

(* The earlier Application: ctx.error coerces by itself and turns the      *)
(* errors of a ValidationError into a list of { path, message }, one per   *)
(* message of every key.                                                   *)
FieldErrorList(items) == [tag |-> "list", items |-> items]

coercedErrors(errors) ==
  LET entries == errors.entries
      OfKey(e) == [j \in 1..Len(e.messages) |-> [path |-> e.path, message |-> e.messages[j]]]
      F[j \in 0..Len(entries)] ==
        IF j = 0 THEN <<>> ELSE F[j - 1] \o OfKey(entries[j])
  IN FieldErrorList(F[Len(entries)])

ctxCoerce(e) ==
  IF e.kind = "ApplicationError" THEN e
  ELSE IF e.kind = "ValidationError" THEN ApplicationError(400, e.message, coercedErrors(e.data))
  ELSE IF e.kind \in {"UserNotFoundError", "TokenInvalidError", "TokenExpiryError"}
    THEN ApplicationError(401, e.message, Undefined)
  ELSE ApplicationError(500, e.message, Undefined)

ctxError(e) ==
  LET coerced == ctxCoerce(e)
  IN Response(coerced.status,
              [tag |-> "error", message |-> coerced.message,
               errors |-> IF coerced.data.tag = "list" THEN coerced.data
                          ELSE FieldErrorList(<<>>)])

CtxError ==
  /\ phase = "raised"
  /\ resp' = ctxError(err)
  /\ phase' = "responded"
  /\ sent' = sent + 1
  /\ UNCHANGED <<auth, db, nreq, action, params, reqBody, allowed, index, resource,
                 err, halted, trace, calls>>
  /\ UNCHANGED <<hookVars, ctorVars, authVars, errVars, concVars, procVars, aclVars>>

CoerceInit == CodeIdle /\ HookIdle /\ Constructed /\ AuthIdle /\ Loaded /\ Alone /\ NoProcess /\ NoAcl

CoerceNext ==
  \/ \E e \in Thrown : Raise(e)
  \/ AppCatch
  \/ CtxError

(***************************************************************************)
(* Registering coercion handlers                                           *)
(***************************************************************************)
MaxRegistrations == 2

(* The constructors an application registers a handler for: one the module *)
(* has a handler for, one it has none for, and ApplicationError itself.    *)
RegisterKinds == {"TokenInvalidError", "AuthorisationError", "ApplicationError"}

register(ctor, f) ==
  /\ Len(registered) < MaxRegistrations
  /\ handlers' = set(handlers, ctor, f)
  /\ registered' = Append(registered, <<ctor, f>>)
  /\ UNCHANGED <<codeVars, hookVars, ctorVars, authVars, concVars, procVars, aclVars>>

(* One error of every kind that is looked up.                              *)
Samples ==
  {ValidationError, PlainError, AuthorisationError, NotFound,
   RawError("TokenInvalidError", "Token was invalid", Undefined)}

RegisterInit == CodeIdle /\ HookIdle /\ Constructed /\ AuthIdle /\ Loaded /\ Alone /\ NoProcess /\ NoAcl

RegisterNext ==
  \/ \E ctor \in RegisterKinds, f \in Handlers : register(ctor, f)
  \/ \E e \in Samples : Raise(e)
  \/ AppCatch

(***************************************************************************)
(* The auth init middleware behind the Application                         *)
(***************************************************************************)
Tick ==
  /\ clock < MaxTime
  /\ clock' = clock + 1
  /\ UNCHANGED <<header, user, lookups, optional, strict, nexts>>
  /\ UNCHANGED <<codeVars, hookVars, ctorVars, errVars, concVars, procVars, aclVars>>

(* What the middleware of Auth.init does with the token header of a        *)
(* request: it calls next, with ctx.user set if a token was consumed, or   *)
(* it throws.                                                              *)
Failed(e, ids) == [err |-> e, user |-> NoUser, lookups |-> ids, next |-> 0]
Passed(u, ids) == [err |-> NoErr, user |-> u, lookups |-> ids, next |-> 1]

initLenient(tok, now, opt, checksExp) ==
  IF tok = NoToken
    THEN Passed(NoUser, <<>>)
    ELSE LET consumed == consumeToken(tok, now, checksExp)
         IN IF consumed.err # NoErr THEN Failed(consumed.err, consumed.lookups)
            ELSE Passed(consumed.user, consumed.lookups)

init(tok, now, opt, checksExp) ==
  IF tok = NoToken
    THEN IF opt THEN Passed(NoUser, <<>>)
         ELSE Failed(TokenInvalidError("No token header set"), <<>>)
    ELSE LET consumed == consumeToken(tok, now, checksExp)
         IN IF consumed.err # NoErr THEN Failed(consumed.err, consumed.lookups)
            ELSE Passed(consumed.user, consumed.lookups)

AuthInit(tok) ==
  LET out == init(tok, clock, optional, strict)
  IN /\ phase \in {"idle", "responded"}
     /\ nreq < MaxRequests
     /\ nreq' = nreq + 1
     /\ header' = tok
     /\ user' = out.user
     /\ lookups' = out.lookups
     /\ nexts' = out.next
     /\ err' = out.err
     /\ phase' = IF out.err = NoErr THEN "returned" ELSE "raised"
     /\ index' = -1
     /\ resource' = NoResource
     /\ resp' = Response(Unset, NoBody)
     /\ halted' = FALSE
     /\ trace' = <<>>
     /\ calls' = <<>>
     /\ sent' = 0
     /\ UNCHANGED <<auth, db, action, params, reqBody, allowed>>
     /\ UNCHANGED <<clock, optional, strict>>
     /\ UNCHANGED <<hookVars, ctorVars, errVars, concVars, procVars, aclVars>>

AuthSpecInit ==
  /\ CodeIdle /\ HookIdle /\ Constructed /\ Loaded /\ Alone /\ NoProcess /\ NoAcl
  /\ clock = 0
  /\ header = NoToken
  /\ user = NoUser
  /\ lookups = <<>>
  /\ optional \in BOOLEAN
  /\ strict \in BOOLEAN
  /\ nexts = 0

AuthNext ==
  \/ Tick
  \/ \E tok \in Tokens \cup {NoToken} : AuthInit(tok)
  \/ AppReturn
  \/ AppCatch

(***************************************************************************)
(* process and dispatch, with a sub-chain                                  *)
(***************************************************************************)
Top == frames[Len(frames)]
SubPos == CHOOSE k \in 0..(Length(0) - 1) : MwAt(0, k) = "sub"
SubStarted == indexes[2] # -1

Processing ==
  [indexes |-> indexes, frames |-> frames, invoked |-> invoked, nextCalls |-> nextCalls,
   parentNexts |-> parentNexts, failed |-> FALSE]

multipleNever(j, last) == FALSE

(* if (i <= index) throw new Error('next() called multiple times ...')      *)
multiple(j, last) == j <= last

atEndEarly(j, n) == j >= n - 1

(* if (i === mws.length) return parentNext()                               *)
atEnd(j, n) == j = n

(* (mw.bind(this))(ctx, async () => dispatch(i + 1))                        *)
invoke(st, level, j) ==
  [st EXCEPT !.frames = Append(@, Frame(level, j)),
             !.invoked[level + 1][j + 1] = @ + 1]

(* dispatch(j) of the chain: its parentNext is `async () => undefined`.    *)
dispatchChain(st, j) ==
  IF multiple(j, st.indexes[1]) THEN [st EXCEPT !.failed = TRUE]
  ELSE LET moved == [st EXCEPT !.indexes[1] = j]
       IN IF atEnd(j, Length(0)) THEN moved ELSE invoke(moved, 0, j)

(* dispatch(j) of the sub-chain: its parentNext is the next of the         *)
(* middleware of the chain that processes it.                              *)
dispatchSub(st, j) ==
  IF multiple(j, st.indexes[2]) THEN [st EXCEPT !.failed = TRUE]
  ELSE LET moved == [st EXCEPT !.indexes[2] = j]
       IN IF atEnd(j, Length(1))
            THEN dispatchChain([moved EXCEPT !.parentNexts = @ + 1,
                                           !.nextCalls[1][SubPos + 1] = @ + 1],
                               SubPos + 1)
            ELSE invoke(moved, 1, j)

(* The state after a call of process or of next: a failure of dispatch     *)
(* rejects every pending call, nothing in the chains catches it.           *)
Processed(st) ==
  /\ indexes' = st.indexes
  /\ invoked' = st.invoked
  /\ nextCalls' = st.nextCalls
  /\ parentNexts' = st.parentNexts
  /\ IF st.failed
       THEN /\ frames' = <<>>
            /\ phase' = "raised"
            /\ err' = MultipleTimes
       ELSE /\ frames' = st.frames
            /\ phase' = IF st.frames = <<>> THEN "returned" ELSE "run"
            /\ UNCHANGED err

processFrame ==
  /\ UNCHANGED <<auth, db, action, params, reqBody, allowed, index, resource, resp,
                 halted, trace, calls, sent>>
  /\ UNCHANGED chains
  /\ UNCHANGED <<hookVars, ctorVars, authVars, errVars, concVars, aclVars>>

(* this.process(ctx, chain)                                                *)
Process ==
  /\ phase = "idle"
  /\ nreq < MaxRequests
  /\ nreq' = nreq + 1
  /\ Processed(dispatchChain(Processing, 0))
  /\ processFrame

(* return this.process(ctx, sub, next) in a middleware of the chain        *)
ProcessSub ==
  /\ phase = "run" /\ frames # <<>>
  /\ Top.level = 0 /\ MwAt(0, Top.pos) = "sub"
  /\ ~SubStarted
  /\ Processed(dispatchSub(Processing, 0))
  /\ UNCHANGED nreq
  /\ processFrame

WantsNext(f) ==
  \/ MwAt(f.level, f.pos) = "next" /\ nextCalls[f.level + 1][f.pos + 1] < 1
  \/ MwAt(f.level, f.pos) = "twice" /\ nextCalls[f.level + 1][f.pos + 1] < 2

(* A middleware calls its next.                                            *)
MwNext ==
  /\ phase = "run" /\ frames # <<>>
  /\ WantsNext(Top)
  /\ LET called == [Processing EXCEPT !.nextCalls[Top.level + 1][Top.pos + 1] = @ + 1]
     IN Processed(IF Top.level = 0 THEN dispatchChain(called, Top.pos + 1)
                  ELSE dispatchSub(called, Top.pos + 1))
  /\ UNCHANGED nreq
  /\ processFrame

(* A middleware returns.                                                   *)
MwReturn ==
  /\ phase = "run" /\ frames # <<>>
  /\ ~WantsNext(Top)
  /\ MwAt(Top.level, Top.pos) # "throw"
  /\ MwAt(Top.level, Top.pos) = "sub" => SubStarted
  /\ frames' = SubSeq(frames, 1, Len(frames) - 1)
  /\ phase' = IF Len(frames) = 1 THEN "returned" ELSE "run"
  /\ UNCHANGED <<indexes, invoked, nextCalls, parentNexts, err, nreq>>
  /\ processFrame

(* A middleware throws.                                                    *)
MwThrow ==
  /\ phase = "run" /\ frames # <<>>
  /\ MwAt(Top.level, Top.pos) = "throw"
  /\ frames' = <<>>
  /\ phase' = "raised"
  /\ err' = PlainError
  /\ UNCHANGED <<indexes, invoked, nextCalls, parentNexts, nreq>>
  /\ processFrame

ProcessInit ==
  /\ CodeIdle /\ HookIdle /\ Constructed /\ AuthIdle /\ Loaded /\ Alone /\ NoAcl
  /\ \E c \in ParentChains, sub \in SubChains :
       /\ chains = <<c, IF \E k \in DOMAIN c : c[k] = "sub" THEN sub ELSE <<>>>>
       /\ invoked = <<Counts(c), Counts(sub)>>
       /\ nextCalls = <<Counts(c), Counts(sub)>>
  /\ indexes = <<-1, -1>>
  /\ frames = <<>>
  /\ parentNexts = 0

ProcessNext ==
  \/ Process
  \/ ProcessSub
  \/ MwNext
  \/ MwReturn
  \/ MwThrow
  \/ AppReturn
  \/ AppCatch

(***************************************************************************)
(* init and authorised of requests of one user, with an ACL                *)
(***************************************************************************)
aclFrame == UNCHANGED <<codeVars, hookVars, ctorVars, authVars, errVars, concVars, procVars>>

At(r, pc) == inits[r].pc = pc

(* await self.acl.userRoles(userId)                                        *)
AclUserRoles(r) ==
  /\ At(r, "arrived")
  /\ inits' = [inits EXCEPT ![r].pc = "read", ![r].current = userRoles]
  /\ UNCHANGED <<granted, userRoles>>
  /\ aclFrame

(* await self.acl.removeUserRoles(userId, ...)                             *)
AclRemoveUserRoles(r) ==
  /\ At(r, "read")
  /\ userRoles' = userRoles \ inits[r].current
  /\ inits' = [inits EXCEPT ![r].pc = "removed"]
  /\ UNCHANGED granted
  /\ aclFrame

(* await self.getRoles(ctx.user)                                           *)
AclGetRoles(r) ==
  /\ At(r, "removed")
  /\ inits' = [inits EXCEPT ![r].pc = "got", ![r].roles = granted]
  /\ UNCHANGED <<granted, userRoles>>
  /\ aclFrame

(* await self.acl.addUserRoles(userId, ...); return next()                 *)
AclAddUserRoles(r) ==
  /\ At(r, "got")
  /\ userRoles' = userRoles \cup inits[r].roles
  /\ inits' = [inits EXCEPT ![r].pc = "synchronised"]
  /\ UNCHANGED granted
  /\ aclFrame

(* await self.acl.isAllowed(userId, resource, permissions) of authorised   *)
AclIsAllowed(r) ==
  /\ At(r, "synchronised")
  /\ inits' = [inits EXCEPT ![r].pc = IF userRoles \cap Permitted # {}
                                         THEN "allowed" ELSE "denied",
                             ![r].seen = userRoles,
                             ![r].isAllowed = userRoles \cap Permitted # {}]
  /\ UNCHANGED <<granted, userRoles>>
  /\ aclFrame

(* The roles the ACL holds when the requests arrive are those of an        *)
(* earlier synchronisation, which may have been of other roles.            *)
AclInit ==
  /\ CodeIdle /\ HookIdle /\ Constructed /\ AuthIdle /\ Loaded /\ Alone /\ NoProcess
  /\ granted \in SUBSET Roles
  /\ userRoles \in SUBSET Roles
  /\ inits = [r \in InFlight |-> Arrived]

AclNext ==
  \E r \in InFlight :
    \/ AclUserRoles(r)
    \/ AclRemoveUserRoles(r)
    \/ AclGetRoles(r)
    \/ AclAddUserRoles(r)
    \/ AclIsAllowed(r)

(***************************************************************************)
(* The steps of a resource action                                          *)
(***************************************************************************)
HookBehaviours == {"next", "write", "stop", "respond", "throw"}
Custom == Response(200, [tag |-> "custom"])

(* before<A><M> / after<A><M>: `return next()` unless a subclass overrides *)
(* the method; an override may write the response, not call next or throw. *)
Hook(b) ==
  /\ phase = "run" /\ i < Len(mws) /\ mw.kind \in {"before", "after"}
  /\ CASE b = "next" -> CallNext /\ UNCHANGED resp
       [] b = "write" -> CallNext /\ resp' = Custom
       [] b = "stop" -> Return /\ UNCHANGED resp
       [] b = "respond" -> Return /\ resp' = Custom
       [] b = "throw" -> Throw(PlainError) /\ UNCHANGED resp
  /\ UNCHANGED <<db, resource, calls>>
  /\ UNCHANGED <<reqVars, hookVars, ctorVars, authVars, errVars, concVars, procVars, aclVars>>

HandleStart ==
  /\ Running("START", "handle")
  /\ resource' = handleStart(handleActionStart(action), reqBody, params)
  /\ CallNext
  /\ UNCHANGED <<db, resp, calls>>
  /\ UNCHANGED <<reqVars, hookVars, ctorVars, authVars, errVars, concVars, procVars, aclVars>>

Denied == auth = "acl" /\ ~allowed

handleAuthLenient ==
  /\ Running("AUTH", "handle")
  /\ CallNext
  /\ UNCHANGED <<db, resource, resp, calls>>
  /\ UNCHANGED <<reqVars, hookVars, ctorVars, authVars, errVars, concVars, procVars, aclVars>>

HandleAuth ==
  /\ Running("AUTH", "handle")
  /\ IF auth # "none" /\ Denied THEN Throw(AuthorisationError) ELSE CallNext
  /\ UNCHANGED <<db, resource, resp, calls>>
  /\ UNCHANGED <<reqVars, hookVars, ctorVars, authVars, errVars, concVars, procVars, aclVars>>

HandleListFetch ==
  /\ Running("FETCH", "handle") /\ action = "LIST"
  /\ calls' = Append(calls, "find")
  /\ resource' = [resource EXCEPT !.instance = find(db, resource.query)]
  /\ CallNext
  /\ UNCHANGED <<db, resp>>
  /\ UNCHANGED <<reqVars, hookVars, ctorVars, authVars, errVars, concVars, procVars, aclVars>>

FetchOne ==
  /\ Running("FETCH", "handle")
  /\ calls' = Append(calls, "findOne")
  /\ resource' = [resource EXCEPT !.instance = findOne(db, resource.query)]
  /\ CallNext
  /\ UNCHANGED <<db, resp>>
  /\ UNCHANGED <<reqVars, hookVars, ctorVars, authVars, errVars, concVars, procVars, aclVars>>

HandleReadFetch == action = "READ" /\ FetchOne

HandleUpdateFetch == action = "UPDATE" /\ FetchOne

HandleDeleteFetch == action = "DELETE" /\ FetchOne

HandleCreateWrite ==
  /\ Running("WRITE", "handle") /\ action = "CREATE"
  /\ resource.data # "bad" => FreeIds(db) # {}
  /\ calls' = Append(calls, "create")
  /\ IF resource.data = "bad"
       THEN Throw(ValidationError) /\ UNCHANGED <<db, resource>>
       ELSE LET id == CHOOSE j \in FreeIds(db) : \A k \in FreeIds(db) : j <= k
            IN /\ db' = [db EXCEPT ![id] = resource.data]
               /\ resource' = [resource EXCEPT !.instance = One(id, resource.data)]
               /\ CallNext
  /\ UNCHANGED resp
  /\ UNCHANGED <<reqVars, hookVars, ctorVars, authVars, errVars, concVars, procVars, aclVars>>

update(d, q, data) == [k \in Ids |-> IF k \in Matches(d, q) THEN data ELSE d[k]]

reloadSkipped(d, q, fetched) == fetched

(* ctx.resource.instance = await ctx.resource.query.findOne(), after the   *)
(* update has completed: the instance of FETCH is replaced, not reused.    *)
reload(d, q, fetched) == findOne(d, q)

handleUpdateWriteChecked ==
  /\ Running("WRITE", "handle") /\ action = "UPDATE"
  /\ IF Falsy(resource.instance)
       THEN Throw(NotFound) /\ UNCHANGED <<db, resource, calls>>
       ELSE IF resource.data = "bad"
         THEN /\ calls' = Append(calls, "update")
              /\ Throw(ValidationError)
              /\ UNCHANGED <<db, resource>>
         ELSE /\ calls' = calls \o <<"update", "findOne">>
              /\ db' = update(db, resource.query, resource.data)
              /\ resource' = [resource EXCEPT
                                !.instance = reload(db', resource.query, resource.instance)]
              /\ CallNext
  /\ UNCHANGED resp
  /\ UNCHANGED <<reqVars, hookVars, ctorVars, authVars, errVars, concVars, procVars, aclVars>>

HandleUpdateWrite ==
  /\ Running("WRITE", "handle") /\ action = "UPDATE"
  /\ IF resource.data = "bad"
       THEN /\ calls' = Append(calls, "update")
            /\ Throw(ValidationError)
            /\ UNCHANGED <<db, resource>>
       ELSE /\ calls' = calls \o <<"update", "findOne">>
            /\ db' = update(db, resource.query, resource.data)
            /\ resource' = [resource EXCEPT
                              !.instance = reload(db', resource.query, resource.instance)]
            /\ CallNext
  /\ UNCHANGED resp
  /\ UNCHANGED <<reqVars, hookVars, ctorVars, authVars, errVars, concVars, procVars, aclVars>>

destroy(d, q) == [k \in Ids |-> IF k \in Matches(d, q) THEN NoVal ELSE d[k]]

HandleDeleteWrite ==
  /\ Running("WRITE", "handle") /\ action = "DELETE"
  /\ IF Falsy(resource.instance)
       THEN Throw(NotFound) /\ UNCHANGED <<db, resource, calls>>
       ELSE /\ calls' = Append(calls, "destroy")
            /\ db' = destroy(db, resource.query)
            /\ resource' = [resource EXCEPT !.instance = Null]
            /\ CallNext
  /\ UNCHANGED resp
  /\ UNCHANGED <<reqVars, hookVars, ctorVars, authVars, errVars, concVars, procVars, aclVars>>

HandleSend ==
  /\ Running("SEND", "handle") /\ action # "DELETE"
  /\ IF Falsy(resource.instance)
       THEN Throw(NotFound) /\ UNCHANGED resp
       ELSE /\ resp' = IF resource.multiple
                         THEN ResponderMultiple(resource.instance)
                         ELSE ResponderSingle(resource.instance)
            /\ CallNext
  /\ UNCHANGED <<db, resource, calls>>
  /\ UNCHANGED <<reqVars, hookVars, ctorVars, authVars, errVars, concVars, procVars, aclVars>>

HandleDeleteSend ==
  /\ Running("SEND", "handle") /\ action = "DELETE"
  /\ resp' = [resp EXCEPT !.body = [tag |-> "empty"]]
  /\ Return
  /\ UNCHANGED <<db, resource, calls>>
  /\ UNCHANGED <<reqVars, hookVars, ctorVars, authVars, errVars, concVars, procVars, aclVars>>

handleFinishSetsStatus ==
  /\ Running("FINISH", "handle")
  /\ CallNext
  /\ resp' = [resp EXCEPT !.status = 204]
  /\ UNCHANGED <<db, resource, calls>>
  /\ UNCHANGED <<reqVars, hookVars, ctorVars, authVars, errVars, concVars, procVars, aclVars>>

HandleFinish ==
  /\ Running("FINISH", "handle")
  /\ CallNext
  /\ UNCHANGED <<db, resource, resp, calls>>
  /\ UNCHANGED <<reqVars, hookVars, ctorVars, authVars, errVars, concVars, procVars, aclVars>>

(***************************************************************************)
(* Two requests in flight on one resource                                  *)
(***************************************************************************)
Last(seq) == seq[Len(seq)]

(* handleUpdateWrite awaits twice: the update, then the reload.            *)
UpdateSent == calls # <<>> /\ Last(calls) = "update"

HandleUpdateWriteUpdate ==
  /\ Running("WRITE", "handle") /\ action = "UPDATE"
  /\ ~UpdateSent
  /\ calls' = Append(calls, "update")
  /\ IF resource.data = "bad"
       THEN Throw(ValidationError) /\ UNCHANGED db
       ELSE /\ db' = update(db, resource.query, resource.data)
            /\ UNCHANGED <<phase, index, err, halted, trace>>
  /\ UNCHANGED <<resource, resp>>
  /\ UNCHANGED <<reqVars, hookVars, ctorVars, authVars, errVars, concVars, procVars, aclVars>>

HandleUpdateWriteReload ==
  /\ Running("WRITE", "handle") /\ action = "UPDATE"
  /\ UpdateSent
  /\ calls' = Append(calls, "findOne")
  /\ resource' = [resource EXCEPT !.instance = reload(db, resource.query, resource.instance)]
  /\ CallNext
  /\ UNCHANGED <<db, resp>>
  /\ UNCHANGED <<reqVars, hookVars, ctorVars, authVars, errVars, concVars, procVars, aclVars>>

(* The running request is at an await: it waits for the persistence        *)
(* layer, or it has not entered the resource yet or has been answered.     *)
Awaiting(c) ==
  \/ c.phase \in {"idle", "responded"}
  \/ /\ c.phase = "run"
     /\ c.index + 1 < Len(ChainOf(c.action))
     /\ ChainOf(c.action)[c.index + 2] \in {St("FETCH", "handle"), St("WRITE", "handle")}

switchKeepIndex(cur, other) == [other EXCEPT !.index = cur.index]

(* The context the event loop resumes: `ctx` and `index` are the argument  *)
(* and a local of the resumed call of process.                             *)
switch(cur, other) == other

Switch ==
  LET resumed == switch(Context, parked)
  IN /\ Awaiting(Context)
     /\ parked # IdleContext \/ phase = "run"
     /\ parked' = Context
     /\ phase' = resumed.phase
     /\ action' = resumed.action
     /\ params' = resumed.params
     /\ reqBody' = resumed.reqBody
     /\ allowed' = resumed.allowed
     /\ index' = resumed.index
     /\ resource' = resumed.resource
     /\ resp' = resumed.resp
     /\ err' = resumed.err
     /\ halted' = resumed.halted
     /\ trace' = resumed.trace
     /\ calls' = resumed.calls
     /\ sent' = resumed.sent
     /\ UNCHANGED <<auth, db, nreq>>
     /\ UNCHANGED <<hookVars, ctorVars, authVars, errVars, procVars, aclVars>>

ConcInit ==
  /\ auth = "none"
  /\ db \in [Ids -> {NoVal, "a"}]
  /\ nreq = 0
  /\ phase = "idle"
  /\ action = "LIST"
  /\ params = NoId
  /\ reqBody = NoVal
  /\ allowed = TRUE
  /\ index = -1
  /\ resource = NoResource
  /\ resp = Response(Unset, NoBody)
  /\ err = NoErr
  /\ halted = FALSE
  /\ trace = <<>>
  /\ calls = <<>>
  /\ sent = 0
  /\ HookIdle /\ Constructed /\ AuthIdle /\ Loaded /\ Alone /\ NoProcess /\ NoAcl

ConcNext ==
  \/ \E a \in ResourceAction, id \in Ids \cup {NoId}, body \in Payloads \cup {NoVal} :
        Request(a, id, body, TRUE)
  \/ Switch
  \/ Hook("next")
  \/ HandleStart
  \/ HandleAuth
  \/ HandleListFetch
  \/ HandleReadFetch
  \/ HandleUpdateFetch
  \/ HandleDeleteFetch
  \/ HandleCreateWrite
  \/ HandleUpdateWriteUpdate
  \/ HandleUpdateWriteReload
  \/ HandleDeleteWrite
  \/ HandleSend
  \/ HandleDeleteSend
  \/ HandleFinish
  \/ AppReturn
  \/ AppCatch

(***************************************************************************)
(* Specification of the application                                        *)
(***************************************************************************)
vars == <<codeVars, hookVars, ctorVars, authVars, errVars, concVars, procVars, aclVars>>

Init ==
  /\ auth \in {"none", "noacl", "acl"}
  /\ db \in [Ids -> {NoVal, "a"}]
  /\ nreq = 0
  /\ phase = "idle"
  /\ action = "LIST"
  /\ params = NoId
  /\ reqBody = NoVal
  /\ allowed = TRUE
  /\ index = -1
  /\ resource = NoResource
  /\ resp = Response(Unset, NoBody)
  /\ err = NoErr
  /\ halted = FALSE
  /\ trace = <<>>
  /\ calls = <<>>
  /\ sent = 0
  /\ HookIdle
  /\ Constructed
  /\ AuthIdle
  /\ Loaded
  /\ Alone
  /\ NoProcess
  /\ NoAcl

Next ==
  \/ \E a \in ResourceAction, id \in Ids \cup {NoId}, body \in Payloads \cup {NoVal},
        al \in BOOLEAN : Request(a, id, body, al)
  \/ \E b \in HookBehaviours : Hook(b)
  \/ HandleStart
  \/ HandleAuth
  \/ HandleListFetch
  \/ HandleReadFetch
  \/ HandleUpdateFetch
  \/ HandleDeleteFetch
  \/ HandleCreateWrite
  \/ HandleUpdateWrite
  \/ HandleDeleteWrite
  \/ HandleSend
  \/ HandleDeleteSend
  \/ HandleFinish
  \/ AppReturn
  \/ AppCatch

Spec == Init /\ [][Next]_vars

(* The steps that follow a request: each awaits calls that settle, and the *)
(* event loop then runs the continuation.                                  *)
Settle ==
  \/ \E b \in HookBehaviours : Hook(b)
  \/ HandleStart
  \/ HandleAuth
  \/ HandleListFetch
  \/ HandleReadFetch
  \/ HandleUpdateFetch
  \/ HandleDeleteFetch
  \/ HandleCreateWrite
  \/ HandleUpdateWrite
  \/ HandleDeleteWrite
  \/ HandleSend
  \/ HandleDeleteSend
  \/ HandleFinish
  \/ AppReturn
  \/ AppCatch

LiveSpec == Init /\ [][Next]_vars /\ WF_vars(Settle)

HookSpec == HookInit /\ [][HookNext]_vars

BranchSpec == HookInit /\ [][BranchNext]_vars

CtorSpec == CtorInit /\ [][CtorNext]_vars

CoerceSpec == CoerceInit /\ [][CoerceNext]_vars

AuthSpec == AuthSpecInit /\ [][AuthNext]_vars

RegisterSpec == RegisterInit /\ [][RegisterNext]_vars

ConcSpec == ConcInit /\ [][ConcNext]_vars

ProcessSpec == ProcessInit /\ [][ProcessNext]_vars

AclSpec == AclInit /\ [][AclNext]_vars

TypeOK ==
  /\ phase \in {"idle", "run", "returned", "raised", "responded"}
  /\ index \in -1..17
  /\ sent \in 0..1

(***************************************************************************)
(* Properties of the action chains (Spec)                                  *)
(***************************************************************************)

(* C1: once a step of an action has returned without calling next, no      *)
(* later step of that action is started and the response slot keeps the    *)
(* value it had at that moment until the request has been answered.        *)
C1_StopIsFinal ==
  [][(halted /\ nreq' = nreq) => (trace' = trace /\ resp' = resp)]_vars

C1_Witness ==
  /\ phase = "responded" /\ halted
  /\ Len(trace) < Len(ChainOf(action))
  /\ resp = Custom

MilestonePos(ms) == CHOOSE k \in 1..Len(Milestones) : Milestones[k] = ms
KindPos(kind) == CASE kind = "before" -> 1 [] kind = "handle" -> 2 [] kind = "after" -> 3

(* C2: the steps of an action start with the before-step of START; within  *)
(* a milestone the before-step, the default step and the after-step follow *)
(* one another, and the step after an after-step is the before-step of a   *)
(* later milestone.                                                        *)
C2_StepOrder ==
  /\ trace # <<>> => trace[1] = St("START", "before")
  /\ \A j \in 1..(Len(trace) - 1) :
       LET s == trace[j]
           t == trace[j + 1]
       IN \/ s.ms = t.ms /\ KindPos(t.kind) = KindPos(s.kind) + 1
          \/ /\ s.kind = "after" /\ t.kind = "before"
             /\ MilestonePos(s.ms) < MilestonePos(t.ms)

C2_Witness ==
  /\ phase = "responded" /\ action = "UPDATE" /\ ~halted /\ err = NoErr
  /\ Len(trace) = 15

(* C8: when a step has thrown, no later step starts, and the one response  *)
(* of the request carries the status, message and data of the coerced      *)
(* error, whatever an earlier step had written.                            *)
C8_ErrorResponse ==
  [][phase = "raised" =>
       /\ trace' = trace
       /\ phase' = "responded"
       /\ sent' = 1
       /\ resp'.status = coerce(err).status
       /\ resp'.body = [tag |-> "error", message |-> coerce(err).message,
                        data |-> coerce(err).data]]_vars

C8_Witness ==
  /\ phase = "responded" /\ err # NoErr
  /\ trace[Len(trace)] = St("SEND", "after")
  /\ resp.body.tag = "error"
  /\ sent = 1

(* C9, as claimed: the failure that leaves the action handler is always an *)
(* ApplicationError.                                                       *)
C9_HandlerCoerces == phase = "raised" => err.kind = "ApplicationError"

(* C9, amended: the action handler lets a failure through as thrown; the   *)
(* error middleware of the Application coerces it, so the response to a    *)
(* failed request always has an HTTP error status and the error body.      *)
C9_ApplicationCoerces ==
  (phase = "responded" /\ err # NoErr) =>
    /\ resp.status \in 400..599
    /\ resp.body.tag = "error"

C9_Witness ==
  /\ phase = "responded"
  /\ err.kind \in {"ValidationError", "AuthorisationError"}
  /\ resp.status \in {400, 500}

(* C10: every step of FETCH or WRITE comes after the default step of the   *)
(* authenticate milestone, and a request the authoriser denies issues no   *)
(* persistence call.                                                       *)
C10_AuthBeforePersistence ==
  /\ \A j \in 1..Len(trace) :
       trace[j].ms \in {"FETCH", "WRITE"} =>
         \E k \in 1..(j - 1) : trace[k] = St("AUTH", "handle")
  /\ (Denied /\ phase # "idle") => calls = <<>>

(***************************************************************************)
(* Properties of the hook registry and the milestone pipeline (HookSpec)   *)
(***************************************************************************)
Chains == {chainOf(registries[r], s) : r \in 1..Len(registries), s \in HookSites}

IsHook(e) == e.entry.step # Default

(* C3: every chain is sorted ascending by priority, and of two hooks of    *)
(* one chain that both run, the one with the lower priority runs first.    *)
C3_PriorityOrder ==
  /\ \A c \in Chains : \A j, k \in 1..Len(c) :
       j < k => c[j].priority <= c[k].priority
  /\ \A j, k \in 1..Len(htrace) :
       (/\ IsHook(htrace[j]) /\ IsHook(htrace[k])
        /\ SameChain(htrace[j].entry, htrace[k].entry)
        /\ htrace[j].entry.priority < htrace[k].entry.priority) => j < k

C3_Witness ==
  /\ hstate = "done"
  /\ \E j, k \in 1..Len(htrace) :
       /\ j < k /\ IsHook(htrace[j]) /\ IsHook(htrace[k])
       /\ SameChain(htrace[j].entry, htrace[k].entry)
       /\ htrace[j].entry.priority < htrace[k].entry.priority
       /\ htrace[j].entry.step > htrace[k].entry.step

StepsRun == [j \in 1..Len(htrace) |-> <<htrace[j].entry.ms, htrace[j].entry.kind, htrace[j].entry.step>>]

OnBeforeDefault ==
  \A j, k \in 1..Len(htrace) :
    (/\ htrace[j].entry.kind = "on" /\ IsHook(htrace[j])
     /\ htrace[j].entry.priority = DefaultPriority
     /\ htrace[k].entry.step = Default
     /\ htrace[k].entry.ms = htrace[j].entry.ms) => j < k

(* before(CREATE, START, f), on(CREATE, WRITE, g), after(CREATE, SEND, h)  *)
(* on a fresh resource, each at the default priority, and a CREATE run of  *)
(* the result in which every step returned CONTINUE.                       *)
ScenarioRun ==
  /\ Len(registries) >= 4
  /\ parents[2] = 1 /\ targets[2] = <<"CREATE", "START", "before">>
  /\ parents[3] = 2 /\ targets[3] = <<"CREATE", "WRITE", "on">>
  /\ parents[4] = 3 /\ targets[4] = <<"CREATE", "SEND", "after">>
  /\ \A s \in DOMAIN registries[4] : \A j \in 1..Len(registries[4][s]) :
       registries[4][s][j].priority = DefaultPriority
  /\ hstate = "done" /\ hres = 4 /\ haction = "CREATE"
  /\ \A j \in 1..Len(htrace) : htrace[j].status = "CONTINUE"

(* C4, as claimed: an on hook of default priority runs before the default  *)
(* step of its milestone, and the scenario run executes exactly f,         *)
(* default-START, g, default-WRITE, default-SEND, h.                       *)
C4_ExactlySixSteps ==
  /\ OnBeforeDefault
  /\ ScenarioRun =>
       StepsRun = << <<"START", "before", 2>>, <<"START", "on", Default>>,
                     <<"WRITE", "on", 3>>, <<"WRITE", "on", Default>>,
                     <<"SEND", "on", Default>>, <<"SEND", "after", 4>> >>

(* C4, amended: an on hook of default priority runs before the default     *)
(* step of its milestone, and the scenario run executes f, default-START,  *)
(* g, default-WRITE, default-SEND, h in that order, followed by the        *)
(* default step of FINISH.                                                 *)
C4_UserHookBeforeDefault ==
  /\ OnBeforeDefault
  /\ ScenarioRun =>
       StepsRun = << <<"START", "before", 2>>, <<"START", "on", Default>>,
                     <<"WRITE", "on", 3>>, <<"WRITE", "on", Default>>,
                     <<"SEND", "on", Default>>, <<"SEND", "after", 4>>,
                     <<"FINISH", "on", Default>> >>

C4_Witness == ScenarioRun

Exec(p) == \E j \in 1..Len(htrace) : htrace[j].at = p
Returned(p, st) == \E j \in 1..Len(htrace) : htrace[j].at = p /\ htrace[j].status = st

(* C5: a step is bypassed exactly when the step before it belongs to the   *)
(* same chain, ran and returned SKIP; every other step up to the cursor    *)
(* has run.                                                                *)
C5_SkipOnlyNext ==
  \A p \in 1..(hpos - 1) :
    Exec(p) <=> ~(/\ p > 1
                  /\ Returned(p - 1, "SKIP")
                  /\ SameChain(hplan[p - 1], hplan[p]))

C5_Witness ==
  /\ hstate = "done"
  /\ \E p \in 1..(Len(hplan) - 1) :
       Returned(p, "SKIP") /\ ~SameChain(hplan[p], hplan[p + 1]) /\ Exec(p + 1)
  /\ \E q \in 1..(Len(hplan) - 2) :
       /\ Returned(q, "SKIP") /\ ~Exec(q + 1) /\ Exec(q + 2)
       /\ SameChain(hplan[q], hplan[q + 2])

RECURSIVE Lineage(_)
Lineage(k) == IF k = 0 THEN {} ELSE {k} \cup Lineage(parents[k])

Without(chain, id) == SelectSeq(chain, LAMBDA h : h.id # id)

DiffersOnlyInTarget(new, old, site, id) ==
  /\ \A s \in HookSites : s # site => chainOf(new, s) = chainOf(old, s)
  /\ Without(chainOf(new, site), id) = chainOf(old, site)
  /\ \E j \in 1..Len(chainOf(new, site)) : chainOf(new, site)[j].id = id

OwnHooksOnly ==
  \A j \in 1..Len(htrace) : IsHook(htrace[j]) => htrace[j].entry.step \in Lineage(hres)

(* C6: a registration leaves every existing resource's registry as it was; *)
(* the registry it returns is that of the resource it was called on with   *)
(* the new hook added to the target chain and nothing else changed; a run  *)
(* of a resource executes only hooks registered on it or on the resources  *)
(* it was derived from.                                                    *)
C6_RegistrationIsPure ==
  [][/\ \A r \in 1..Len(registries) : registries'[r] = registries[r]
     /\ Len(registries') > Len(registries) =>
          LET n == Len(registries')
          IN DiffersOnlyInTarget(registries'[n], registries[parents'[n]], targets'[n], n)
     /\ OwnHooksOnly']_vars

C6_Witness ==
  /\ Len(registries) >= 3
  /\ parents[2] = 1 /\ parents[3] = 1
  /\ targets[2] # targets[3]
  /\ hstate = "done" /\ hres = 2
  /\ \E j \in 1..Len(htrace) : htrace[j].entry.step = 2

(* C7: hooks of equal priority stand in a chain, and run, in the order in  *)
(* which they were inserted.                                               *)
C7_StableInsert ==
  /\ \A c \in Chains : \A j, k \in 1..Len(c) :
       (j < k /\ c[j].priority = c[k].priority) => c[j].id < c[k].id
  /\ \A j, k \in 1..Len(htrace) :
       (/\ IsHook(htrace[j]) /\ IsHook(htrace[k])
        /\ SameChain(htrace[j].entry, htrace[k].entry)
        /\ htrace[j].entry.priority = htrace[k].entry.priority
        /\ htrace[j].entry.step < htrace[k].entry.step) => j < k

C7_Witness ==
  /\ hstate = "done"
  /\ \E j, k \in 1..Len(htrace) :
       /\ j < k /\ IsHook(htrace[j]) /\ IsHook(htrace[k])
       /\ SameChain(htrace[j].entry, htrace[k].entry)
       /\ htrace[j].entry.priority = htrace[k].entry.priority

(***************************************************************************)
(* Properties of the persistence steps (Spec)                              *)
(***************************************************************************)
Calls(name) == {j \in 1..Len(calls) : calls[j] = name}

ErrorBody(e) == [tag |-> "error", message |-> e.message, data |-> e.data]

(* C11: when the default WRITE step of a DELETE starts with no instance    *)
(* (FETCH found no record), it throws Not Found without a destroy call,    *)
(* and the request is answered 404 'Not Found' with the stored records     *)
(* and the calls left as they were.                                        *)
C11_DeleteMissing ==
  [][/\ (Running("WRITE", "handle") /\ action = "DELETE" /\ index' = i
          /\ db[params] = NoVal)
        => /\ resource.instance = Null
           /\ phase' = "raised" /\ err' = NotFound
           /\ db' = db /\ calls' = calls /\ Calls("destroy") = {}
     /\ (phase = "raised" /\ action = "DELETE" /\ err = NotFound)
        => /\ resp'.status = 404 /\ resp'.body.message = "Not Found"
           /\ db' = db /\ calls' = calls]_vars

C11_Witness ==
  /\ phase = "responded" /\ action = "DELETE"
  /\ trace[Len(trace)] = St("WRITE", "handle")
  /\ db[params] = NoVal
  /\ Calls("destroy") = {}
  /\ resp = Response(404, ErrorBody(NotFound))

(* The request names a primary key no stored record has, and no overriding *)
(* before/after step has stopped the run or thrown.                        *)
MissingRecord == action \in {"READ", "UPDATE"} /\ phase # "idle" /\ db[params] = NoVal
DefaultsOnly == ~halted /\ err # PlainError

(* C12, as claimed: a READ or UPDATE of a primary key without a record is  *)
(* answered 404 'Not Found'.                                               *)
C12_MissingIs404 ==
  (phase = "responded" /\ MissingRecord /\ DefaultsOnly) =>
    resp = Response(404, ErrorBody(NotFound))

(* C12, amended: a READ or UPDATE of a primary key without a record never  *)
(* emits an instance through the responder; it is answered 404 'Not Found' *)
(* unless it is an UPDATE whose update call fails validation, which is     *)
(* answered with the status 400 of that failure.                           *)
C12_MissingIs404UnlessRejected ==
  /\ MissingRecord => resp.body.tag # "single"
  /\ (phase = "responded" /\ MissingRecord /\ DefaultsOnly) =>
       IF err = ValidationError
         THEN action = "UPDATE" /\ reqBody = "bad" /\ resp.status = 400
         ELSE resp = Response(404, ErrorBody(NotFound))

C12_Witness ==
  /\ phase = "responded" /\ MissingRecord /\ action = "UPDATE"
  /\ calls = <<"findOne", "update", "findOne">>
  /\ trace[Len(trace)] = St("SEND", "handle")
  /\ resp.status = 404

(* C13: the instance a successful UPDATE emits is the record found by the  *)
(* findOne issued after the update call, the last persistence call of the  *)
(* run: it is the stored record (primary key included) with the payload    *)
(* applied, neither the payload alone nor the record as FETCH loaded it.   *)
C13_UpdateSendsReload ==
  (action = "UPDATE" /\ resp.body.tag = "single") =>
    /\ Len(calls) = 3
    /\ calls[Len(calls) - 1] = "update" /\ calls[Len(calls)] = "findOne"
    /\ resp.body.instance = findOne(db, resource.query)
    /\ resp.body.instance = One(params, reqBody)

C13_Witness ==
  /\ phase = "responded" /\ action = "UPDATE" /\ nreq = 1
  /\ resp = ResponderSingle(One(params, "b"))
  /\ db[params] = "b"

NoRecords == \A k \in Ids : db[k] = NoVal

(* C14: the default SEND step of a LIST whose query found no record emits  *)
(* the empty list with status 200 and goes on, and no LIST is ever         *)
(* answered 404.                                                           *)
C14_EmptyListIsSuccess ==
  /\ [](action = "LIST" => (err # NotFound /\ resp.status # 404))
  /\ [][(Running("SEND", "handle") /\ action = "LIST" /\ NoRecords /\ index' = i)
          => /\ resource.instance = Many({})
             /\ resp' = Response(200, [tag |-> "multiple", instances |-> Many({})])
             /\ phase' = "run"]_vars

C14_Witness ==
  /\ phase = "responded" /\ action = "LIST" /\ NoRecords
  /\ calls = <<"find">>
  /\ resp = ResponderMultiple(Many({}))
  /\ Len(trace) = Len(handleList)

(* C15: a CREATE that has emitted an instance has issued one persistence   *)
(* call, a create, with the payload of the request; the response has       *)
(* status 200 and its body is the instance that call returned, the stored  *)
(* record with its assigned primary key.                                   *)
C15_CreateSendsCreated ==
  (action = "CREATE" /\ resp.body.tag = "single") =>
    /\ calls = <<"create">>
    /\ resource.data = reqBody
    /\ resp.status = 200
    /\ resp.body.instance = resource.instance
    /\ \E id \in Ids : /\ resp.body.instance = One(id, reqBody)
                        /\ db[id] = reqBody

C15_Witness ==
  /\ phase = "responded" /\ action = "CREATE" /\ err = NoErr /\ ~halted
  /\ reqBody = "b"
  /\ resp = Response(200, [tag |-> "single", instance |-> One(MaxId, "b")])

(* C16: the default WRITE step of a DELETE that holds a fetched record     *)
(* issues one destroy call, sets the instance of the context to null and   *)
(* goes on; the default SEND step then writes the empty object as body, so *)
(* a DELETE with that body has issued exactly one destroy, after the       *)
(* findOne of FETCH, and holds no instance.                                *)
C16_DeleteFound ==
  /\ []((action = "DELETE" /\ resp.body.tag = "empty") =>
          /\ calls = <<"findOne", "destroy">>
          /\ resource.instance = Null)
  /\ [][/\ (Running("WRITE", "handle") /\ action = "DELETE" /\ index' = i
             /\ db[params] # NoVal)
           => /\ resource.instance = One(params, db[params])
              /\ calls' = Append(calls, "destroy")
              /\ resource'.instance = Null
              /\ phase' = "run"
        /\ (Running("SEND", "handle") /\ action = "DELETE" /\ index' = i)
           => resp'.body = [tag |-> "empty"]]_vars

C16_Witness ==
  /\ phase = "responded" /\ action = "DELETE" /\ err = NoErr
  /\ Calls("destroy") = {2}
  /\ resource.instance = Null
  /\ resp.body = [tag |-> "empty"]
  /\ db[params] = NoVal

(* The run was stopped by an overriding before/after step.                 *)
StoppedByHook == halted /\ trace # <<>> /\ trace[Len(trace)].kind # "handle"

(* C17: a request that was answered without a failure and without a stop   *)
(* has run the default SEND step and, after it, the after-step of SEND and *)
(* the before-step, the default step and the after-step of FINISH, which   *)
(* end the run; DELETE is no exception.                                    *)
C17_FinishAfterSend ==
  (phase = "responded" /\ err = NoErr /\ ~StoppedByHook) =>
    LET n == Len(trace)
    IN /\ n = Len(ChainOf(action))
       /\ trace[n - 4] = St("SEND", "handle")
       /\ trace[n - 3] = St("SEND", "after")
       /\ trace[n - 2] = St("FINISH", "before")
       /\ trace[n - 1] = St("FINISH", "handle")
       /\ trace[n] = St("FINISH", "after")

(***************************************************************************)
(* Properties of the constructor (CtorSpec)                                *)
(***************************************************************************)
Enabled == {options.actions[j] : j \in 1..Len(options.actions)}

Installed(method, path, h) ==
  {j \in 1..Len(stack) : stack[j] = Route(method, path, h)}

(* C18: once constructed from a list of actions, the router holds exactly  *)
(* one route for every action of the list, however often the list names    *)
(* it, and none for any other action: GET / for LIST, GET /:id for READ,   *)
(* POST / for CREATE, PUT /:id for UPDATE and DELETE /:id for DELETE; a     *)
(* request is handed to the handler of its route only, so with the list    *)
(* [READ] nothing but GET /:id finds a handler.                            *)
C18_RoutesOfEnabled ==
  (built /\ options.given) =>
    LET count(a, method, path) ==
          /\ Cardinality(Installed(method, path, a)) = IF a \in Enabled THEN 1 ELSE 0
          /\ Cardinality({j \in 1..Len(stack) : stack[j].handler = a})
               = Cardinality(Installed(method, path, a))
    IN /\ count("LIST", "GET", "/")
       /\ count("READ", "GET", "/:id")
       /\ count("CREATE", "POST", "/")
       /\ count("UPDATE", "PUT", "/:id")
       /\ count("DELETE", "DELETE", "/:id")
       /\ Len(stack) = Cardinality(Enabled)
       /\ Len(matched) <= 1
       /\ \A j \in 1..Len(matched) : matched[j] \in Enabled
       /\ Enabled = {"READ"} => (stack = <<Route("GET", "/:id", "READ")>>
                                 /\ matched \in {<<>>, <<"READ">>})

C18_Witness ==
  /\ built /\ options.given
  /\ options.actions = <<"READ", "LIST", "READ">>
  /\ stack = <<Route("GET", "/:id", "READ"), Route("GET", "/", "LIST")>>
  /\ matched = <<"READ">>

(***************************************************************************)
(* Properties of the error coercion (CoerceSpec)                           *)
(***************************************************************************)

(* C19: coerce gives back an ApplicationError as it is, with its status,   *)
(* its message and its data, and coercing twice gives what coercing once   *)
(* gives; the answer of the error middleware is that of the coerced error. *)
C19_CoerceIdempotent ==
  err # NoErr =>
    /\ err.kind = "ApplicationError" => coerce(err) = err
    /\ coerce(coerce(err)) = coerce(err)
    /\ (phase = "responded" /\ "data" \in DOMAIN resp.body) =>
         resp = Response(coerce(coerce(err)).status, ErrorBody(coerce(err)))

C19_Witness ==
  /\ phase = "responded" /\ trace = <<>>
  /\ err = ApplicationError(409, "Forbidden", FieldErrors(<<Entry("name", <<"Is required">>)>>))
  /\ resp = Response(409, ErrorBody(err))

(* C20: the answer to a validation failure has status 400, the message of  *)
(* the failure and a list with one { path, message } entry for every       *)
(* invalid field, in the order of the fields.                              *)
C20_ValidationFieldErrors ==
  (phase = "responded" /\ err.kind = "ValidationError") =>
    LET fields == err.data.entries
        list == IF "data" \in DOMAIN resp.body THEN resp.body.data ELSE resp.body.errors
    IN /\ resp.status = 400
       /\ resp.body.message = err.message
       /\ list.tag = "list"
       /\ Len(list.items) = Len(fields)
       /\ \A j \in 1..Len(fields) :
            /\ list.items[j].path = fields[j].path
            /\ \E k \in 1..Len(fields[j].messages) :
                 list.items[j].message = fields[j].messages[k]

(***************************************************************************)
(* Properties of the token check (AuthSpec)                                *)
(***************************************************************************)
AuthenticationFailures == {"TokenInvalidError", "TokenExpiryError", "UserNotFoundError"}

Unregistered(e) == e.kind \notin {"none", "ApplicationError"} /\ handler(e) = NoHandler

(* C23: a failure that is not an ApplicationError and has no registered    *)
(* coercion handler is coerced to status 500 with the failure's own        *)
(* message, and the request is answered with that status and message.      *)
C23_UnregisteredIs500 ==
  (phase \in {"raised", "responded"} /\ Unregistered(err)) =>
    /\ coerce(err).kind = "ApplicationError"
    /\ coerce(err).status = 500
    /\ coerce(err).message = err.message
    /\ phase = "responded" => (resp.status = 500 /\ resp.body.message = err.message)

C23_Witness ==
  /\ phase = "responded"
  /\ err = PlainError
  /\ resp.status = 500
  /\ resp.body.message = "boom"

(* C24: the body of an error response has a message and a list `errors`    *)
(* of { path, message } entries, empty when no field is in error, and      *)
(* nothing else of the error; its status is the status of the coerced      *)
(* error.                                                                  *)
C24_ErrorBodyShape ==
  (phase = "responded" /\ resp.body # NoBody /\ resp.body.tag = "error") =>
    /\ DOMAIN resp.body = {"tag", "message", "errors"}
    /\ resp.body.message = coerce(err).message
    /\ resp.body.errors.tag = "list"
    /\ resp.status = coerce(err).status

Registers == Len(registered') = Len(registered) + 1
LastRegistered == registered[Len(registered)]

(* C25: a call register(K, f) makes coerce return f(e) for every error e   *)
(* of kind K that is not an ApplicationError and leaves the coercion of    *)
(* every other error as it was, whether or not K had a handler before.     *)
C25_RegisterReplacesOne ==
  [][Registers =>
       \A e \in Thrown \cup Samples :
         coerce(e)' = IF e.kind = LastRegistered'[1] /\ e.kind # "ApplicationError"
                        THEN call(LastRegistered'[2], e)
                        ELSE coerce(e)]_vars

(* A handler registered for a kind that already had a registered handler   *)
(* has answered a request.                                                 *)
C25_Witness ==
  /\ Len(registered) = 2
  /\ registered[1][1] = registered[2][1]
  /\ registered[1][2] = "teapot" /\ registered[2][2] = "forbidden"
  /\ phase = "responded"
  /\ err.kind = registered[2][1]
  /\ err.kind = "TokenInvalidError"
  /\ resp = ResponderError(resp, call("forbidden", err))

(***************************************************************************)
(* Properties of requests in flight together (ConcSpec)                    *)
(***************************************************************************)
OwnQuery(c) == IF c.action = "LIST" THEN Query(FALSE, NoId) ELSE Query(TRUE, c.params)

OwnInstance(c) ==
  LET instance == c.resource.instance
  IN \/ instance = Null
     \/ /\ instance.tag = "one"
        /\ c.action # "LIST"
        /\ NeedsId(c.action) => instance.id = c.params
        /\ c.action = "CREATE" => instance.val = c.reqBody
     \/ instance.tag = "many" /\ c.action = "LIST"

OwnResource(c) ==
  c.resource # NoResource =>
    /\ c.resource.actionName = ActionName(c.action)
    /\ c.resource.query = OwnQuery(c)
    /\ c.resource.data = c.reqBody
    /\ OwnInstance(c)

OwnResponse(c) ==
  /\ c.resp.body.tag = "single" => c.resp.body.instance = c.resource.instance
  /\ c.resp.body.tag = "multiple" => c.resp.body.instances = c.resource.instance
  /\ c.resp.body.tag = "error" => c.resp = ResponderError(c.resp, coerce(c.err))
  /\ c.index < Len(ChainOf(c.action))
  /\ Len(c.trace) = c.index + 1
  /\ \A k \in 1..Len(c.trace) : c.trace[k] = ChainOf(c.action)[k]

Isolated ==
  \/ parked' = parked
  \/ parked' = Context /\ Context' = parked

Configuration == <<auth, hookVars, ctorVars, errVars>>

(* C26: of two requests in flight on one resource, interleaved at their    *)
(* awaits, each keeps a context of its own: its query, data, instance and  *)
(* response come from its own action, parameter and body and from what     *)
(* the persistence layer returned to it, its steps are those of its own    *)
(* chain in order, no step changes the context of the other request, and   *)
(* the configuration of the resource stays as constructed.                 *)
C26_RequestsIsolated ==
  /\ [](OwnResource(Context) /\ OwnResource(parked))
  /\ [](OwnResponse(Context) /\ OwnResponse(parked))
  /\ [][Isolated /\ UNCHANGED Configuration]_vars

(* An UPDATE waits for its reload while a READ of another id, started      *)
(* after it, has fetched.                                                  *)
C26_Witness ==
  /\ parked.phase = "run" /\ parked.action = "UPDATE"
  /\ parked.calls = <<"findOne", "update">>
  /\ phase = "run" /\ action = "READ"
  /\ calls = <<"findOne">>
  /\ params # parked.params
  /\ resource.instance # Null /\ parked.resource.instance # Null

(***************************************************************************)
(* Properties of the steps of an action (Spec)                             *)
(***************************************************************************)
Writes == {"create", "update", "destroy"}
Fetches == {"find", "findOne"}
Steps(ms) == {k \in 1..Len(trace) : trace[k].ms = ms}

(* C27: a LIST or a READ makes no create, update or destroy call and runs  *)
(* no WRITE step; a CREATE makes no find or findOne call and runs no FETCH *)
(* step.                                                                   *)
C27_ReadsDoNotWrite ==
  /\ action \in {"LIST", "READ"} =>
       /\ \A k \in 1..Len(calls) : calls[k] \notin Writes
       /\ Steps("WRITE") = {}
  /\ action = "CREATE" =>
       /\ \A k \in 1..Len(calls) : calls[k] \notin Fetches
       /\ Steps("FETCH") = {}

C27_Witness ==
  /\ phase = "responded"
  /\ action = "READ"
  /\ calls = <<"findOne">>
  /\ Len(trace) = Len(ChainOf("READ"))

StartDone == \E k \in 1..Len(trace) : trace[k] = St("START", "handle")

(* C28: once START has run, the query of the request is filtered by the    *)
(* primary key of the route parameter if the action is READ, UPDATE or     *)
(* DELETE, and is the unfiltered query of the model if the action is LIST  *)
(* or CREATE.                                                              *)
C28_FilteredForIdActions ==
  StartDone =>
    resource.query = IF NeedsId(action) THEN Query(TRUE, params) ELSE Query(FALSE, NoId)

(* C28, as the code has it: once START has run, the query is unfiltered    *)
(* for LIST only; for every other action, CREATE included, it is filtered  *)
(* by the id of the route, which a CREATE does not have.                   *)
C28_FilteredUnlessMultiple ==
  StartDone =>
    /\ resource.query = IF action = "LIST" THEN Query(FALSE, NoId) ELSE Query(TRUE, params)
    /\ NeedsId(action) <=> params # NoId

C28_Witness ==
  /\ phase = "responded"
  /\ action = "CREATE"
  /\ StartDone
  /\ resource.query = Query(TRUE, NoId)
  /\ resp.body.tag = "single"

(* A step of the chain of the request in hand is started.                  *)
Starts(ms, kind) == Running(ms, kind) /\ index' = i /\ nreq' = nreq

(* C29: of the default steps of an action, only the SEND step writes the   *)
(* status and the body of the response: the START, AUTH, FETCH, WRITE and  *)
(* FINISH steps leave them as they were, and a SEND step that does not     *)
(* fail sets the body.                                                     *)
C29_OnlySendWrites ==
  [][/\ \A ms \in {"START", "AUTH", "FETCH", "WRITE", "FINISH"} :
          Starts(ms, "handle") => resp' = resp
     /\ (Starts("SEND", "handle") /\ phase' # "raised") => resp'.body # NoBody]_vars

C29_Witness ==
  /\ phase = "responded"
  /\ action = "UPDATE"
  /\ err = NoErr /\ ~halted
  /\ Len(trace) = Len(ChainOf("UPDATE"))
  /\ resp = ResponderSingle(resource.instance)

(***************************************************************************)
(* Properties of the consumption of a token (AuthSpec)                     *)
(***************************************************************************)
Consumes == nreq' = nreq + 1 /\ header' # NoToken

(* C30: consuming a token fails with TokenInvalidError if the token does   *)
(* not decode with the secret and with TokenExpiryError if it decodes and  *)
(* the time is at or past its exp; getUser is called, with the sub of the  *)
(* token, only if the token decodes and is not expired, and if it finds no *)
(* user the failure is UserNotFoundError.                                  *)
C30_TokenFailures ==
  [][Consumes =>
       /\ err'.kind = IF ~header'.signed THEN "TokenInvalidError"
                      ELSE IF clock >= header'.exp THEN "TokenExpiryError"
                      ELSE IF header'.sub \notin Users THEN "UserNotFoundError"
                      ELSE "none"
       /\ lookups' = IF header'.signed /\ clock < header'.exp
                       THEN <<header'.sub>> ELSE <<>>]_vars

(* C31: on a request without a token header the init middleware throws     *)
(* TokenInvalidError('No token header set') and does not call next unless  *)
(* `optional` is set, in which case it calls next once and leaves ctx.user *)
(* unset; on a request with a token it calls next only with ctx.user set   *)
(* to the user of the token.                                               *)
C31_InitWithoutToken ==
  [][nreq' = nreq + 1 =>
       /\ (header' = NoToken /\ ~optional) =>
            /\ err' = TokenInvalidError("No token header set")
            /\ nexts' = 0
            /\ phase' = "raised"
       /\ (header' = NoToken /\ optional) =>
            /\ nexts' = 1
            /\ user' = NoUser
            /\ err' = NoErr
       /\ header' # NoToken =>
            /\ nexts' = IF err' = NoErr THEN 1 ELSE 0
            /\ nexts' = 1 => (user' = header'.sub /\ user' \in Users)]_vars

C31_Witness ==
  /\ phase = "responded"
  /\ header = NoToken /\ optional
  /\ nexts = 1
  /\ user = NoUser
  /\ err = NoErr

(***************************************************************************)
(* Properties of process (ProcessSpec)                                     *)
(***************************************************************************)
Finished == phase \in {"returned", "raised", "responded"}
AllCalledNext == \A k \in 1..Length(1) : nextCalls[2][k] >= 1
AfterSub == {k \in 1..Length(0) : k > SubPos + 1}

(* C32: the parentNext of a sub-chain is called at most once, only if      *)
(* every middleware of the sub-chain has called next, and it has been      *)
(* called once the sub-chain has ended with every middleware having called *)
(* next; as long as it has not been called, no middleware of the parent    *)
(* chain behind the one processing the sub-chain is invoked.               *)
C32_ParentNextIffAllNext ==
  SubStarted =>
    /\ parentNexts <= 1
    /\ parentNexts = 1 => AllCalledNext
    /\ (Finished /\ AllCalledNext) => parentNexts = 1
    /\ parentNexts = 0 => (indexes[1] = SubPos /\ \A k \in AfterSub : invoked[1][k] = 0)

C32_Witness ==
  /\ phase = "responded"
  /\ chains = <<<<"sub", "next">>, <<"next", "next">>>>
  /\ parentNexts = 1
  /\ invoked = <<<<1, 1>>, <<1, 1>>>>

Positions == {p \in {1, 2} \X (1..(MaxChain + 1)) : p[2] <= Len(chains[p[1]])}

(* C34: within a call of process no middleware is invoked twice and        *)
(* `index` never decreases and increases with every invocation; a second   *)
(* call of next by a middleware fails with 'next() called multiple times   *)
(* in resource middleware' and invokes nothing.                            *)
C34_InvokedOnce ==
  /\ [](\A p \in Positions : invoked[p[1]][p[2]] <= 1)
  /\ [][/\ \A l \in {1, 2} : indexes'[l] >= indexes[l]
        /\ invoked' # invoked => \E l \in {1, 2} : indexes'[l] > indexes[l]
        /\ \A p \in Positions :
             (nextCalls[p[1]][p[2]] = 1 /\ nextCalls'[p[1]][p[2]] = 2) =>
               /\ phase' = "raised"
               /\ err' = MultipleTimes
               /\ invoked' = invoked]_vars

C34_Witness ==
  /\ phase = "responded"
  /\ err = MultipleTimes
  /\ chains = <<<<"sub">>, <<"twice", "next">>>>
  /\ nextCalls[2] = <<2, 1>>
  /\ invoked[2] = <<1, 1>>
  /\ resp.status = 500

(***************************************************************************)
(* Properties of the persistence calls of an action (Spec)                 *)
(***************************************************************************)
Issued(name) == Cardinality(Calls(name))

(* C33: in the run of an action find, create, update and destroy are each  *)
(* called at most once and findOne at most once, or twice in an UPDATE;    *)
(* once a step has thrown the 404 error no persistence call follows.       *)
C33_NoRetry ==
  /\ [](/\ \A name \in {"find", "create", "update", "destroy"} : Issued(name) <= 1
        /\ Issued("findOne") <= IF action = "UPDATE" THEN 2 ELSE 1)
  /\ [][(err = NotFound /\ phase \in {"raised", "responded"} /\ nreq' = nreq)
          => calls' = calls]_vars

C33_Witness ==
  /\ phase = "responded"
  /\ action = "DELETE"
  /\ err = NotFound
  /\ calls = <<"findOne">>
  /\ resp.status = 404

Ran(ms) == \E k \in 1..Len(trace) : trace[k] = St(ms, "handle")
LastStep == trace[Len(trace)]

(* C35: the WRITE step of an UPDATE calls update whatever FETCH found: an  *)
(* UPDATE that ends with the 404 error has made the calls findOne, update  *)
(* and findOne and has failed at SEND, while a DELETE that ends with the   *)
(* 404 error has failed at WRITE without a call of destroy.                *)
C35_UpdateWritesUnchecked ==
  /\ (action = "UPDATE" /\ Ran("WRITE")) => Calls("update") # {}
  /\ (action = "UPDATE" /\ err = NotFound) =>
       /\ calls = <<"findOne", "update", "findOne">>
       /\ LastStep = St("SEND", "handle")
  /\ (action = "DELETE" /\ err = NotFound) =>
       /\ Calls("destroy") = {}
       /\ LastStep = St("WRITE", "handle")

C35_Witness ==
  /\ phase = "responded"
  /\ action = "UPDATE"
  /\ err = NotFound
  /\ resource.instance = Null
  /\ calls = <<"findOne", "update", "findOne">>
  /\ resp.status = 404

(***************************************************************************)
(* Properties of the authorisation step (Spec)                             *)
(***************************************************************************)
Invocations(step) == {k \in 1..Len(trace) : trace[k] = step}

(* C36: the AUTH step of an action throws AuthorisationError and calls no  *)
(* next if an ACL is configured and denies the user, so that no later step *)
(* of the action runs; in every other case, no authoriser or no ACL        *)
(* configured or the user allowed, it calls next once: the step behind it  *)
(* is the next to run and runs at most once.                               *)
C36_AuthorisedCallsNext ==
  /\ [](Cardinality(Invocations(St("AUTH", "after"))) <= 1)
  /\ [](err.kind = "AuthorisationError" =>
          (auth = "acl" /\ ~allowed /\ LastStep = St("AUTH", "handle")))
  /\ [][Starts("AUTH", "handle") =>
          IF auth = "acl" /\ ~allowed
            THEN phase' = "raised" /\ err' = AuthorisationError
            ELSE phase' = "run" /\ mws[index' + 2] = St("AUTH", "after")]_vars

C36_Witness ==
  /\ phase = "responded"
  /\ auth = "acl" /\ ~allowed
  /\ err = AuthorisationError
  /\ LastStep = St("AUTH", "handle")
  /\ calls = <<>>

(***************************************************************************)
(* Properties of the roles of a user under concurrent requests (AclSpec)   *)
(***************************************************************************)
(* C37: the roles the authorised check of a request reads for its user are *)
(* the roles of getRoles(user) that the init of that request has stored,   *)
(* whatever other requests of the user do: a request of a user whose roles *)
(* permit the action is not denied.                                        *)
C37_RolesAsSynchronised ==
  \A r \in InFlight :
    inits[r].pc \in {"allowed", "denied"} =>
      /\ inits[r].seen = granted
      /\ granted \cap Permitted # {} => inits[r].isAllowed

(***************************************************************************)
(* Termination of an action run (LiveSpec)                                 *)
(***************************************************************************)
(* C38: every action run ends: once its calls settle, the run of each      *)
(* request ends with one response written, of the action or of the coerced *)
(* error, and no run invokes more steps than the chain of its action has.  *)
C38_RunTerminates ==
  /\ \A n \in 1..MaxRequests :
        (nreq = n /\ phase = "run") ~> (nreq = n /\ phase = "responded" /\ sent = 1)
  /\ [](Len(trace) <= Len(ChainOf(action)))
  /\ [](phase = "responded" /\ err # NoErr => resp = ResponderError(Response(Unset, NoBody), coerce(err)))

C38_Witness ==
  /\ nreq = MaxRequests
  /\ phase = "responded"
  /\ sent = 1
  /\ err = NoErr
  /\ Len(trace) = Len(ChainOf(action))

====
